---- MODULE Spec2Model ----
(***************************************************************************)
(* Hierarchical document registry of the municipal development code        *)
(* tools: the number classifier (scripts/common/utils.py), the registry    *)
(* (scripts/common/hierarchical_document_registry.py) and its factory.     *)
(*                                                                         *)
(* A Python str is a sequence of one-character strings, so that regular    *)
(* expressions, str.split and slicing are computed character by character. *)
(***************************************************************************)
EXTENDS Integers, Sequences, FiniteSets, TLC

VARIABLES
    pc,                 \* position in create_registry_for_location / the caller
    toc_entries,        \* HierarchicalDocumentRegistry.toc_entries
    document_files,     \* HierarchicalDocumentRegistry.document_files
    document_hierarchy, \* HierarchicalDocumentRegistry.document_hierarchy (ordered dict)
    arg,                \* argument of the last call of a pure function
    ret,                \* value returned by the last call
    validations         \* results of validate_subsection_content so far, where they are compared

vars == <<pc, toc_entries, document_files, document_hierarchy, arg, ret, validations>>

(***************************************************************************)
(* Bounds of the model.                                                    *)
(***************************************************************************)
MaxStrLen == 7
MaxToc == 3
MaxFiles == 2
MaxDocs == 10

(***************************************************************************)
(* Python values.                                                          *)
(***************************************************************************)
\* None, where a str is expected: no str has a two-character element.
None == <<"None">>

\* bool(x) of an Optional[str]: None and "" are falsy.
Truthy(x) == x # None /\ x # <<>>

NL == "\n"

\* The characters \d matches among those the model draws strings from.
Digits == {"0", "1", "2", "3", "4", "5", "6", "7", "8", "9"}

IsDigit(c) == c \in Digits

AllDigits(s, i, j) == \A k \in i..j : IsDigit(s[k])

\* str.split('.'): the pieces between the dots, empty pieces included.
RECURSIVE SplitFrom(_, _, _)
SplitFrom(s, i, cur) ==
    IF i > Len(s) THEN <<cur>>
    ELSE IF s[i] = "." THEN <<cur>> \o SplitFrom(s, i + 1, <<>>)
    ELSE SplitFrom(s, i + 1, Append(cur, s[i]))

Split(s) == SplitFrom(s, 1, <<>>)

\* '.' in s
HasDot(s) == \E i \in 1..Len(s) : s[i] = "."

(***************************************************************************)
(* config.PATTERNS and the regular-expression engine on them.              *)
(***************************************************************************)
DocumentLevelFractionDigits == 2
SubsectionFractionDigits == 4

\* `$` without re.MULTILINE after position p: the end of the string, or just
\* before a newline that is the last character.
AtDollar(s, p) == p = Len(s) \/ (p + 1 = Len(s) /\ s[p + 1] = NL)

\* re.match(r'^\d+\.\d{w}$', s)
MatchNumberPattern(s, w) ==
    \E n \in 1..Len(s) :
        /\ AllDigits(s, 1, n)
        /\ n + 1 + w <= Len(s)
        /\ s[n + 1] = "."
        /\ AllDigits(s, n + 2, n + 1 + w)
        /\ AtDollar(s, n + 1 + w)

\* The last index of the run of digits that starts at i (s[i] is a digit).
RunEnd(s, i) ==
    CHOOSE k \in i..Len(s) :
        AllDigits(s, i, k) /\ (k = Len(s) \/ ~IsDigit(s[k + 1]))

\* Whether r'(\d+\.\d+)' matches starting at index i.
FilenameNumberAt(s, i) ==
    /\ IsDigit(s[i])
    /\ LET j == RunEnd(s, i)
       IN  j + 2 <= Len(s) /\ s[j + 1] = "." /\ IsDigit(s[j + 2])

\* re.search(r'(\d+\.\d+)', s).group(1), or None: the leftmost match, each
\* run of digits greedy.
SearchFilenameNumber(s) ==
    LET starts == {i \in 1..Len(s) : FilenameNumberAt(s, i)}
    IN  IF starts = {} THEN None
        ELSE LET i == CHOOSE x \in starts : \A y \in starts : x <= y
                 j == RunEnd(s, i)
             IN  SubSeq(s, i, RunEnd(s, j + 2))

(***************************************************************************)
(* scripts/common/utils.py                                                 *)
(***************************************************************************)
is_document_level(number) == MatchNumberPattern(number, DocumentLevelFractionDigits)

is_subsection(number) == MatchNumberPattern(number, SubsectionFractionDigits)

get_parent_document(subsection_number) ==
    IF is_subsection(subsection_number)
    THEN LET parts == Split(subsection_number)
         IN  IF Len(parts) = 2 /\ Len(parts[2]) = 4
             THEN parts[1] \o <<".">> \o SubSeq(parts[2], 1, 2)
             ELSE None
    ELSE None

\* extract_number_from_filename without the normalisation of parts[1].
extract_number_from_filename_raw(filename) == SearchFilenameNumber(filename)

extract_number_from_filename(filename) ==
    LET number == SearchFilenameNumber(filename)
    IN  IF number = None THEN None
        ELSE IF HasDot(number)
             THEN LET parts == Split(number)
                  IN  IF Len(parts) = 2 /\ Len(parts[2]) > 2
                      THEN parts[1] \o <<".">> \o SubSeq(parts[2], 1, 2)
                      ELSE number
             ELSE number

(***************************************************************************)
(* The number classifier called on arbitrary strings.                      *)
(***************************************************************************)
Alphabet == {"0", "1", ".", NL, "a"}

\* The strings over Alphabet of length up to n.
StringsUpTo(n) == UNION {[1..k -> Alphabet] : k \in 0..n}

NoCall == [op |-> "none"]

RegistryIdle ==
    /\ pc = "classifier"
    /\ toc_entries = <<>>
    /\ document_files = <<>>
    /\ document_hierarchy = <<>>

ClassifyInit ==
    /\ RegistryIdle
    /\ arg \in StringsUpTo(MaxStrLen)
    /\ ret = NoCall
    /\ validations = <<>>

CallIsDocumentLevel ==
    /\ pc = "classifier"
    /\ ret' = [op |-> "is_document_level", value |-> is_document_level(arg)]
    /\ UNCHANGED <<pc, toc_entries, document_files, document_hierarchy, arg, validations>>

CallIsSubsection ==
    /\ pc = "classifier"
    /\ ret' = [op |-> "is_subsection", value |-> is_subsection(arg)]
    /\ UNCHANGED <<pc, toc_entries, document_files, document_hierarchy, arg, validations>>

CallGetParentDocument ==
    /\ pc = "classifier"
    /\ ret' = [op |-> "get_parent_document", value |-> get_parent_document(arg)]
    /\ UNCHANGED <<pc, toc_entries, document_files, document_hierarchy, arg, validations>>

ClassifyNext ==
    \/ CallIsDocumentLevel
    \/ CallIsSubsection
    \/ CallGetParentDocument

SpecClassify == ClassifyInit /\ [][ClassifyNext]_vars

(***************************************************************************)
(* The registry: scripts/common/hierarchical_document_registry.py          *)
(***************************************************************************)
TOCEntry(number, title, page, level) ==
    [number |-> number, title |-> title, page |-> page, level |-> level]

DocumentFile(filename, filepath) ==
    [filename |-> filename, filepath |-> filepath, extracted_number |-> None]

\* DocumentHierarchy.file_info = None
NoFile == [filename |-> None, filepath |-> None, extracted_number |-> None]

DocumentHierarchy(document_number, document_title) ==
    [document_number |-> document_number, document_title |-> document_title,
     file_info |-> NoFile, subsections |-> <<>>]

\* TOCEntry.parent_document
parent_document(entry) == get_parent_document(entry.number)

\* DocumentFile.document_number
document_number(doc_file) ==
    IF Truthy(doc_file.extracted_number)
    THEN doc_file.extracted_number
    ELSE extract_number_from_filename(doc_file.filename)

has_file(h) == h.file_info # NoFile

subsection_count(h) == Len(h.subsections)

(***************************************************************************)
(* A Python dict keeps its keys in the order of their first insertion: a   *)
(* sequence of [key, value] with pairwise distinct keys.                   *)
(***************************************************************************)
DictKeys(d) == {d[i].key : i \in 1..Len(d)}

DictHas(d, k) == k \in DictKeys(d)

DictGet(d, k) == d[CHOOSE i \in 1..Len(d) : d[i].key = k].value

\* d[k] = v: a new key goes last, a key already there keeps its place.
DictSet(d, k, v) ==
    IF DictHas(d, k)
    THEN [i \in 1..Len(d) |-> IF d[i].key = k THEN [key |-> k, value |-> v] ELSE d[i]]
    ELSE Append(d, [key |-> k, value |-> v])

\* d.values()
DictValues(d) == [i \in 1..Len(d) |-> d[i].value]

(***************************************************************************)
(* build_hierarchy, loop by loop.                                          *)
(***************************************************************************)
\* for doc_entry in document_entries: the entries from index i on.
RECURSIVE CreateDocumentsFrom(_, _, _)
CreateDocumentsFrom(entries, i, h) ==
    IF i > Len(entries) THEN h
    ELSE CreateDocumentsFrom(entries, i + 1,
             DictSet(h, entries[i].number,
                     DocumentHierarchy(entries[i].number, entries[i].title)))

\* CreateDocuments that keeps the first entry of a number (no overwrite).
RECURSIVE CreateDocumentsFirstWinsFrom(_, _, _)
CreateDocumentsFirstWinsFrom(entries, i, h) ==
    IF i > Len(entries) THEN h
    ELSE CreateDocumentsFirstWinsFrom(entries, i + 1,
             IF DictHas(h, entries[i].number) THEN h
             ELSE DictSet(h, entries[i].number,
                          DocumentHierarchy(entries[i].number, entries[i].title)))

CreateDocumentsFirstWins(entries, h) == CreateDocumentsFirstWinsFrom(entries, 1, h)

CreateDocuments(entries, h) == CreateDocumentsFrom(entries, 1, h)

\* for subsection in subsection_entries
RECURSIVE AssignSubsectionsFrom(_, _, _)
AssignSubsectionsFrom(entries, i, h) ==
    IF i > Len(entries) THEN h
    ELSE LET parent_num == parent_document(entries[i])
         IN  AssignSubsectionsFrom(entries, i + 1,
                 IF Truthy(parent_num) /\ DictHas(h, parent_num)
                 THEN LET doc == DictGet(h, parent_num)
                      IN  DictSet(h, parent_num,
                              [doc EXCEPT !.subsections = Append(@, entries[i])])
                 ELSE h)

\* AssignSubsections with the subsection put first in the list, not last.
RECURSIVE AssignSubsectionsPrependFrom(_, _, _)
AssignSubsectionsPrependFrom(entries, i, h) ==
    IF i > Len(entries) THEN h
    ELSE LET parent_num == get_parent_document(entries[i].number)
         IN  AssignSubsectionsPrependFrom(entries, i + 1,
                 IF Truthy(parent_num) /\ DictHas(h, parent_num)
                 THEN LET doc == DictGet(h, parent_num)
                      IN  DictSet(h, parent_num,
                              [doc EXCEPT !.subsections = <<entries[i]>> \o @])
                 ELSE h)

AssignSubsectionsPrepend(entries, h) == AssignSubsectionsPrependFrom(entries, 1, h)

AssignSubsections(entries, h) == AssignSubsectionsFrom(entries, 1, h)

\* for doc_file in self.document_files
RECURSIVE MatchFilesFrom(_, _, _)
MatchFilesFrom(files, i, h) ==
    IF i > Len(files) THEN h
    ELSE LET doc_num == document_number(files[i])
         IN  MatchFilesFrom(files, i + 1,
                 IF Truthy(doc_num) /\ DictHas(h, doc_num)
                 THEN DictSet(h, doc_num,
                          [DictGet(h, doc_num) EXCEPT !.file_info = files[i]])
                 ELSE h)

\* MatchFiles that keeps the first file of a document (first wins).
RECURSIVE MatchFilesFirstWinsFrom(_, _, _)
MatchFilesFirstWinsFrom(files, i, h) ==
    IF i > Len(files) THEN h
    ELSE LET doc_num == extract_number_from_filename(files[i].filename)
         IN  MatchFilesFirstWinsFrom(files, i + 1,
                 IF Truthy(doc_num) /\ DictHas(h, doc_num)
                    /\ DictGet(h, doc_num).file_info = NoFile
                 THEN DictSet(h, doc_num,
                          [DictGet(h, doc_num) EXCEPT !.file_info = files[i]])
                 ELSE h)

MatchFilesFirstWins(files, h) == MatchFilesFirstWinsFrom(files, 1, h)

MatchFiles(files, h) == MatchFilesFrom(files, 1, h)

build_hierarchy(entries, files) ==
    LET document_entries == SelectSeq(entries, LAMBDA e : is_document_level(e.number))
        subsection_entries == SelectSeq(entries, LAMBDA e : is_subsection(e.number))
    IN  MatchFiles(files,
            AssignSubsections(subsection_entries,
                CreateDocuments(document_entries, <<>>)))

(***************************************************************************)
(* Metrics and reports.  A float percentage is kept as the exact fraction  *)
(* num/den (den > 0) of the value the expression denotes.                  *)
(***************************************************************************)
Rat(num, den) == [num |-> num, den |-> den]

\* calculate_percentage without the test for a zero denominator: the division
\* by zero is the fraction with den = 0.
calculate_percentage_unguarded(numerator, denominator) ==
    Rat(numerator * 100, denominator)

\* utils.calculate_percentage
calculate_percentage(numerator, denominator) ==
    IF denominator = 0 THEN Rat(0, 1)
    ELSE Rat(numerator * 100, denominator)

AlignmentMetrics(total, with_files, without_files, subsections, orphaned) ==
    [total_documents |-> total,
     documents_with_files |-> with_files,
     documents_without_files |-> without_files,
     total_subsections |-> subsections,
     orphaned_files |-> orphaned]

\* AlignmentMetrics.alignment_percentage
alignment_percentage(metrics) ==
    calculate_percentage(metrics.documents_with_files, metrics.total_documents)

\* round(x, 2) of x = num/den >= 0, in hundredths: to nearest, a tie to even.
Round2(x) ==
    LET n == x.num * 100
        q == n \div x.den
        r == n % x.den
    IN  Rat(IF 2 * r < x.den THEN q
            ELSE IF 2 * r > x.den THEN q + 1
            ELSE IF q % 2 = 0 THEN q ELSE q + 1, 100)

RECURSIVE SumSubsectionCounts(_, _)
SumSubsectionCounts(hs, i) ==
    IF i > Len(hs) THEN 0
    ELSE subsection_count(hs[i]) + SumSubsectionCounts(hs, i + 1)

\* matched_files of calculate_alignment_metrics and get_orphaned_files
MatchedFiles(h) ==
    {h[i].value.file_info.filename : i \in {j \in 1..Len(h) : has_file(h[j].value)}}

\* calculate_alignment_metrics that takes the documents, not the matched
\* files, from the number of scanned files.
calculate_alignment_metrics_by_documents(h, files) ==
    LET total_documents == Len(h)
        documents_with_files == Len(SelectSeq(DictValues(h), has_file))
    IN  AlignmentMetrics(total_documents,
                         documents_with_files,
                         total_documents - documents_with_files,
                         SumSubsectionCounts(DictValues(h), 1),
                         Len(files) - total_documents)

calculate_alignment_metrics(h, files) ==
    LET total_documents == Len(h)
        documents_with_files == Len(SelectSeq(DictValues(h), has_file))
    IN  AlignmentMetrics(total_documents,
                         documents_with_files,
                         total_documents - documents_with_files,
                         SumSubsectionCounts(DictValues(h), 1),
                         Len(files) - Cardinality(MatchedFiles(h)))

get_missing_documents(h) == SelectSeq(DictValues(h), LAMBDA x : ~has_file(x))

\* get_orphaned_files by the number of the file instead of its name.
get_orphaned_files_by_number(h, files) ==
    SelectSeq(files, LAMBDA f : LET n == extract_number_from_filename(f.filename)
                                IN  n = None \/ ~DictHas(h, n))

get_orphaned_files(h, files) ==
    SelectSeq(files, LAMBDA f : f.filename \notin MatchedFiles(h))

\* doc.subsections[:5] of the report's document_hierarchy
ReportSubsectionLimit == 5

SubsectionSummary(subs) ==
    [i \in 1..Len(subs) |-> [number |-> subs[i].number, title |-> subs[i].title]]

Min(a, b) == IF a <= b THEN a ELSE b

\* An element of the report's missing_documents, cut to the first
\* ReportSubsectionLimit subsections as the document_hierarchy summaries are.
MissingDocumentSummaryCut(doc) ==
    [number |-> doc.document_number,
     title |-> doc.document_title,
     subsection_count |-> subsection_count(doc),
     subsections |->
        SubsectionSummary(SubSeq(doc.subsections, 1,
                                 Min(Len(doc.subsections), ReportSubsectionLimit)))]

\* An element of the report's missing_documents.
MissingDocumentSummary(doc) ==
    [number |-> doc.document_number,
     title |-> doc.document_title,
     subsection_count |-> subsection_count(doc),
     subsections |-> SubsectionSummary(doc.subsections)]

\* DocumentSummary that adds the note from ReportSubsectionLimit subsections on.
DocumentSummaryNoteFromLimit(doc) ==
    [number |-> doc.document_number,
     title |-> doc.document_title,
     has_file |-> has_file(doc),
     filename |-> doc.file_info.filename,
     subsection_count |-> subsection_count(doc),
     subsections |->
        SubsectionSummary(SubSeq(doc.subsections, 1,
                                 Min(Len(doc.subsections), ReportSubsectionLimit)))
        \o (IF subsection_count(doc) >= ReportSubsectionLimit
            THEN <<[note |-> subsection_count(doc) - ReportSubsectionLimit]>>
            ELSE <<>>)]

\* An element of the report's document_hierarchy; the note holds the number
\* that f'... and {doc.subsection_count - 5} more' prints.
DocumentSummary(doc) ==
    [number |-> doc.document_number,
     title |-> doc.document_title,
     has_file |-> has_file(doc),
     filename |-> doc.file_info.filename,
     subsection_count |-> subsection_count(doc),
     subsections |->
        SubsectionSummary(SubSeq(doc.subsections, 1,
                                 Min(Len(doc.subsections), ReportSubsectionLimit)))
        \o (IF subsection_count(doc) > ReportSubsectionLimit
            THEN <<[note |-> subsection_count(doc) - ReportSubsectionLimit]>>
            ELSE <<>>)]

generate_alignment_report(h, files) ==
    LET metrics == calculate_alignment_metrics(h, files)
        missing_docs == get_missing_documents(h)
        orphaned_files == get_orphaned_files(h, files)
        docs == DictValues(h)
    IN  [metrics |->
            [total_documents |-> metrics.total_documents,
             documents_with_files |-> metrics.documents_with_files,
             documents_without_files |-> metrics.documents_without_files,
             total_subsections |-> metrics.total_subsections,
             orphaned_files |-> metrics.orphaned_files,
             alignment_percentage |-> Round2(alignment_percentage(metrics))],
         missing_documents |->
            [i \in 1..Len(missing_docs) |-> MissingDocumentSummary(missing_docs[i])],
         orphaned_files |->
            [i \in 1..Len(orphaned_files) |->
                [filename |-> orphaned_files[i].filename,
                 extracted_number |-> document_number(orphaned_files[i])]],
         document_hierarchy |-> [i \in 1..Len(docs) |-> DocumentSummary(docs[i])]]

(***************************************************************************)
(* The inputs of a run: the TOC file and the content directory.            *)
(***************************************************************************)
N104 == <<"1", ".", "0", "4">>
N105 == <<"1", ".", "0", "5">>
N10410 == <<"1", ".", "0", "4", "1", "0">>
N10411 == <<"1", ".", "0", "4", "1", "1">>
N1041 == <<"1", ".", "0", "4", "1">>

\* The 'toc' items a payload is drawn from: document 1.04 under two titles,
\* document 1.05, two subsections of 1.04 (without a parent when 1.04 is not
\* in the payload), a 3-digit fraction, and numbers that end in a newline.
TocItemPool ==
    {[number |-> N104, title |-> "Streets"],
     [number |-> N104, title |-> "Roads"],
     [number |-> N105, title |-> "Parks"],
     [number |-> N10410, title |-> "Width"],
     [number |-> N10411, title |-> "Grade"],
     [number |-> N1041, title |-> "Odd"],
     [number |-> Append(N104, NL), title |-> "Streets"],
     [number |-> Append(N10410, NL), title |-> "Width"]}

RECURSIVE SeqsOfLen(_, _)
SeqsOfLen(S, n) ==
    IF n = 0 THEN {<<>>}
    ELSE {Append(s, x) : s \in SeqsOfLen(S, n - 1), x \in S}

SeqsUpTo(S, n) == UNION {SeqsOfLen(S, k) : k \in 0..n}

TocItemLists == SeqsUpTo(TocItemPool, MaxToc)

\* What os.path.exists and load_json_file find at the TOC path: no file, a
\* file that cannot be read or parsed, an object with a 'toc' key, an array,
\* or a payload of neither shape and without text-bearing values (an object
\* of scalars, a scalar).  Payloads with page text are not drawn here.
TocFiles ==
    {[exists |-> e, readable |-> r, shape |-> s, items |-> it] :
        e \in {TRUE}, r \in {TRUE}, s \in {"toc_dict", "list"}, it \in TocItemLists}
    \cup {[exists |-> TRUE, readable |-> TRUE, shape |-> s, items |-> <<>>] :
            s \in {"scalar_dict", "scalar"}}
    \cup {[exists |-> TRUE, readable |-> FALSE, shape |-> "none", items |-> <<>>],
          [exists |-> FALSE, readable |-> FALSE, shape |-> "none", items |-> <<>>]}

Name(stem) == <<"d", "c", "-">> \o stem \o <<".", "j", "s", "o", "n">>

\* DEFAULT_FILES['toc']
TocFileName ==
    <<"d", "c", "-", "t", "a", "b", "l", "e", "-", "o", "f", "-",
      "c", "o", "n", "t", "e", "n", "t", "s", ".", "j", "s", "o", "n">>

\* File names of the content directory: dc-1.0400.json and dc-1.04.json both
\* give 1.04, dc-1.05.json gives 1.05 (no document of a TOC without 1.05) and
\* dc-readme.json holds no number.
FileNamePool ==
    {Name(<<"1", ".", "0", "4", "0", "0">>),
     Name(N104),
     Name(N105),
     Name(<<"r", "e", "a", "d", "m", "e">>)}

Injective(s) == \A i, j \in 1..Len(s) : i # j => s[i] # s[j]

\* content_path.glob('*.json'): the names of the directory, in any order.
Listings ==
    {s \in SeqsUpTo(FileNamePool \cup {TocFileName}, MaxFiles + 1) :
        /\ Injective(s)
        /\ Len(SelectSeq(s, LAMBDA x : x # TocFileName)) <= MaxFiles}

ContentDirs ==
    {[exists |-> TRUE, listing |-> l] : l \in Listings}
    \cup {[exists |-> FALSE, listing |-> <<>>]}

FilePath(name) == <<"/">> \o name

(***************************************************************************)
(* The page-text TOC: parse_toc_text_content, extract_toc_entries_from_text *)
(* and the two patterns they search with.                                  *)
(***************************************************************************)
\* The characters \s matches among those the model draws texts from.
WhiteSpace == {" ", "\t", NL, "\r", "\f"}

UpperCase ==
    {"A", "B", "C", "D", "E", "F", "G", "H", "I", "J", "K", "L", "M",
     "N", "O", "P", "Q", "R", "S", "T", "U", "V", "W", "X", "Y", "Z"}

\* The index after the run of characters of class C that starts at i (i
\* itself when s[i] is not in C): a greedy C* from i.
ClassRunEnd(s, i, C) ==
    CHOOSE k \in i..(Len(s) + 1) :
        (\A j \in i..(k - 1) : s[j] \in C) /\ (k = Len(s) + 1 \/ s[k] \notin C)

StartsWith(s, i, w) == i + Len(w) - 1 <= Len(s) /\ SubSeq(s, i, i + Len(w) - 1) = w

SectionWord == <<"S", "E", "C", "T", "I", "O", "N">>

NoMatch == [found |-> FALSE]

\* A match: groups 1 and 2 and the index after the match.
Match(number, title, end) ==
    [found |-> TRUE, number |-> number, title |-> title, end |-> end]

\* PATTERNS['section_header'], r'SECTION\s+(\d+\.\d+)\s+([A-Z\s]+)', matched
\* at index i.  Every run is greedy; the only backtracking that succeeds is
\* the second \s+ giving its last character to group 2 when no capital
\* follows the white space.
SectionHeaderAt(s, i) ==
    IF ~StartsWith(s, i, SectionWord) THEN NoMatch
    ELSE LET a == ClassRunEnd(s, i + 7, WhiteSpace)
             b == ClassRunEnd(s, a, Digits)
             c == ClassRunEnd(s, b + 1, Digits)
             d == ClassRunEnd(s, c, WhiteSpace)
             e == ClassRunEnd(s, d, UpperCase \cup WhiteSpace)
         IN  IF a = i + 7 \/ b = a \/ b > Len(s) THEN NoMatch
             ELSE IF s[b] # "." \/ c = b + 1 \/ d = c THEN NoMatch
             ELSE IF e > d THEN Match(SubSeq(s, a, c - 1), SubSeq(s, d, e - 1), e)
             ELSE IF d - c >= 2 THEN Match(SubSeq(s, a, c - 1), SubSeq(s, d - 1, d - 1), d)
             ELSE NoMatch

\* r'\d+\.\d{4}' matched at index i: the index after it, or 0.
SubsectionNumberAt(s, i) ==
    LET b == ClassRunEnd(s, i, Digits)
    IN  IF b = i \/ b > Len(s) THEN 0
        ELSE IF s[b] = "." /\ b + 4 <= Len(s) /\ AllDigits(s, b + 1, b + 4) THEN b + 5
        ELSE 0

\* The lookahead (?=\s*\n|\s+\d+\.\d{4}) at index q.
TocSubsectionLookahead(s, q) ==
    LET w == ClassRunEnd(s, q, WhiteSpace)
    IN  \/ \E n \in q..(w - 1) : s[n] = NL
        \/ w > q /\ SubsectionNumberAt(s, w) # 0

\* PATTERNS['toc_subsection'],
\* r'(\d+\.\d{4})\s+([^.\n]+?)(?=\s*\n|\s+\d+\.\d{4})', matched at index i:
\* the \s+ as long as a match allows, then group 2 as short as the lookahead
\* allows.
TocSubsectionAt(s, i) ==
    LET k == SubsectionNumberAt(s, i)
    IN  IF k = 0 THEN NoMatch
        ELSE LET m == ClassRunEnd(s, k, WhiteSpace)
                 Ends(p) == {q \in (p + 1)..(Len(s) + 1) :
                                /\ \A j \in p..(q - 1) : s[j] \notin {".", NL}
                                /\ TocSubsectionLookahead(s, q)}
                 starts == {p \in (k + 1)..m : Ends(p) # {}}
             IN  IF starts = {} THEN NoMatch
                 ELSE LET p == CHOOSE x \in starts : \A y \in starts : y <= x
                          q == CHOOSE x \in Ends(p) : \A y \in Ends(p) : x <= y
                      IN  Match(SubSeq(s, i, k - 1), SubSeq(s, p, q - 1), q)

\* re.finditer: the matches from left to right, each search starting where
\* the match before it ended.
RECURSIVE SectionHeaderMatchesFrom(_, _)
SectionHeaderMatchesFrom(s, pos) ==
    IF pos > Len(s) THEN <<>>
    ELSE LET m == SectionHeaderAt(s, pos)
         IN  IF m.found THEN <<m>> \o SectionHeaderMatchesFrom(s, m.end)
             ELSE SectionHeaderMatchesFrom(s, pos + 1)

RECURSIVE TocSubsectionMatchesFrom(_, _)
TocSubsectionMatchesFrom(s, pos) ==
    IF pos > Len(s) THEN <<>>
    ELSE LET m == TocSubsectionAt(s, pos)
         IN  IF m.found THEN <<m>> \o TocSubsectionMatchesFrom(s, m.end)
             ELSE TocSubsectionMatchesFrom(s, pos + 1)

\* str.strip()
Strip(s) ==
    LET keep == {i \in 1..Len(s) : s[i] \notin WhiteSpace}
    IN  IF keep = {} THEN <<>>
        ELSE SubSeq(s, CHOOSE x \in keep : \A y \in keep : x <= y,
                       CHOOSE x \in keep : \A y \in keep : y <= x)

\* entries.append({...}) for each match of one pattern.
EntriesOfType(matches, type) ==
    [i \in 1..Len(matches) |->
        [number |-> matches[i].number, title |-> Strip(matches[i].title), type |-> type]]

extract_toc_entries_from_text(text) ==
    EntriesOfType(SectionHeaderMatchesFrom(text, 1), "section_header")
    \o EntriesOfType(TocSubsectionMatchesFrom(text, 1), "subsection")

\* JSON values as far as load_toc_from_file looks into them: a scalar, an
\* object (with or without a 'text' field) and an array of such values.
JScalar == [kind |-> "scalar", has_text |-> FALSE, text |-> <<>>, items |-> <<>>]

JObject == [kind |-> "dict", has_text |-> FALSE, text |-> <<>>, items |-> <<>>]

JTextObject(text) == [kind |-> "dict", has_text |-> TRUE, text |-> text, items |-> <<>>]

JList(items) == [kind |-> "list", has_text |-> FALSE, text |-> <<>>, items |-> items]

\* isinstance(value, dict) and 'text' in value
IsDictWithText(value) == value.kind = "dict" /\ value.has_text

\* The texts of the dicts with 'text' in a list, each followed by "\n".
RECURSIVE ListTextFrom(_, _)
ListTextFrom(items, i) ==
    IF i > Len(items) THEN <<>>
    ELSE (IF IsDictWithText(items[i]) THEN Append(items[i].text, NL) ELSE <<>>)
         \o ListTextFrom(items, i + 1)

\* The loop of parse_toc_text_content over toc_data.items(), from item i on.
RECURSIVE ParseTocTextFrom(_, _)
ParseTocTextFrom(toc_data, i) ==
    IF i > Len(toc_data) THEN <<>>
    ELSE LET value == toc_data[i].value
         IN  (IF IsDictWithText(value) THEN Append(value.text, NL)
              ELSE IF value.kind = "list" THEN ListTextFrom(value.items, 1)
              ELSE <<>>)
             \o ParseTocTextFrom(toc_data, i + 1)

parse_toc_text_content(toc_data) == ParseTocTextFrom(toc_data, 1)

\* The test of load_toc_from_file on an object without 'toc': when 'pages'
\* is a list only the pages are looked at, otherwise every value.
has_pages_with_text(toc_data) ==
    IF DictHas(toc_data, "pages") /\ DictGet(toc_data, "pages").kind = "list"
    THEN \E i \in 1..Len(DictGet(toc_data, "pages").items) :
            IsDictWithText(DictGet(toc_data, "pages").items[i])
    ELSE \E i \in 1..Len(toc_data) :
            \/ IsDictWithText(toc_data[i].value)
            \/ /\ toc_data[i].value.kind = "list"
               /\ \E j \in 1..Len(toc_data[i].value.items) :
                    IsDictWithText(toc_data[i].value.items[j])

\* The number of a section header, cut to a 2-digit fraction.
NormalizeHeaderNumber(number) ==
    IF HasDot(number)
    THEN LET parts == Split(number)
         IN  IF Len(parts) = 2 /\ Len(parts[2]) > 2
             THEN parts[1] \o <<".">> \o SubSeq(parts[2], 1, 2)
             ELSE number
    ELSE number

\* TocEntriesOfText that keeps the number of a section header as matched.
TocEntriesOfTextAsMatched(entries) ==
    [i \in 1..Len(entries) |->
        TOCEntry(entries[i].number, entries[i].title, None,
                 IF entries[i].type = "section_header" THEN 0 ELSE 1)]

\* The loop of _parse_toc_from_page_text: a TOCEntry per extracted entry.
TocEntriesOfText(entries) ==
    [i \in 1..Len(entries) |->
        IF entries[i].type = "section_header"
        THEN TOCEntry(NormalizeHeaderNumber(entries[i].number), entries[i].title, None, 0)
        ELSE TOCEntry(entries[i].number, entries[i].title, None, 1)]

\* _parse_toc_from_page_text: the entries appended to toc_entries.
parse_toc_from_page_text(pdf_data) ==
    TocEntriesOfText(extract_toc_entries_from_text(parse_toc_text_content(pdf_data)))

(***************************************************************************)
(* load_toc_from_file and scan_document_files                              *)
(***************************************************************************)
\* The loop over toc_items: one TOCEntry per item.
TocEntriesOf(items) ==
    [i \in 1..Len(items) |-> TOCEntry(items[i].number, items[i].title, None, 0)]

\* Whether item.get raises: the item of the payload is no object.
NotADict(item) == "kind" \in DOMAIN item /\ item.kind # "dict"

\* The loop over the items with item.get: the entries appended, up to the
\* first item that is no object, where AttributeError is raised.
TocItemsLoaded(items) ==
    LET bad == {i \in 1..Len(items) : NotADict(items[i])}
    IN  IF bad = {} THEN [toc_entries |-> TocEntriesOf(items), raised |-> ""]
        ELSE [toc_entries |->
                TocEntriesOf(SubSeq(items, 1, (CHOOSE i \in bad : \A j \in bad : i <= j) - 1)),
              raised |-> "AttributeError"]

\* load_toc_from_file without self.toc_entries = []: the entries are
\* appended to those of the load before.
load_toc_from_file_appending(toc_file, old_entries) ==
    IF ~toc_file.readable
    THEN [toc_entries |-> old_entries, raised |-> "FileNotFoundError"]
    ELSE IF toc_file.shape \in {"toc_dict", "list"}
    THEN [toc_entries |-> old_entries \o TocItemsLoaded(toc_file.items).toc_entries,
          raised |-> TocItemsLoaded(toc_file.items).raised]
    ELSE IF toc_file.shape = "dict" /\ has_pages_with_text(toc_file.pairs)
    THEN [toc_entries |-> old_entries \o parse_toc_from_page_text(toc_file.pairs), raised |-> ""]
    ELSE [toc_entries |-> old_entries, raised |-> "ValueError"]

\* load_toc_from_file with an unsupported payload taken as an empty TOC.
load_toc_from_file_lenient(toc_file, old_entries) ==
    IF ~toc_file.readable
    THEN [toc_entries |-> old_entries, raised |-> "FileNotFoundError"]
    ELSE IF toc_file.shape \in {"toc_dict", "list"}
    THEN TocItemsLoaded(toc_file.items)
    ELSE IF toc_file.shape = "dict" /\ has_pages_with_text(toc_file.pairs)
    THEN [toc_entries |-> parse_toc_from_page_text(toc_file.pairs), raised |-> ""]
    ELSE [toc_entries |-> <<>>, raised |-> ""]

\* load_toc_from_file on a file that exists: the entries it leaves in
\* toc_entries and the exception it raises ("" for none).  A payload of
\* shape "dict" is an object without 'toc'; its members are toc_file.pairs.
load_toc_from_file(toc_file, old_entries) ==
    IF ~toc_file.readable
    THEN [toc_entries |-> old_entries, raised |-> "FileNotFoundError"]
    ELSE IF toc_file.shape \in {"toc_dict", "list"}
    THEN TocItemsLoaded(toc_file.items)
    ELSE IF toc_file.shape = "dict" /\ has_pages_with_text(toc_file.pairs)
    THEN [toc_entries |-> parse_toc_from_page_text(toc_file.pairs), raised |-> ""]
    ELSE [toc_entries |-> <<>>, raised |-> "ValueError"]

\* scan_document_files without the check of file_path.name.
scan_document_files_all(content_dir) ==
    IF ~content_dir.exists THEN <<>>
    ELSE [i \in 1..Len(content_dir.listing) |->
            DocumentFile(content_dir.listing[i], FilePath(content_dir.listing[i]))]

scan_document_files(content_dir) ==
    IF ~content_dir.exists THEN <<>>
    ELSE LET kept == SelectSeq(content_dir.listing, LAMBDA x : x # TocFileName)
         IN  [i \in 1..Len(kept) |-> DocumentFile(kept[i], FilePath(kept[i]))]

(***************************************************************************)
(* create_registry_for_location, then the read-only calls on the registry. *)
(***************************************************************************)
Init ==
    /\ pc = "start"
    /\ toc_entries = <<>>
    /\ document_files = <<>>
    /\ document_hierarchy = <<>>
    /\ arg = <<>>
    /\ ret = NoCall
    /\ validations = <<>>

\* The registry after load_toc_from_file returned or raised.
TocLoaded(r) ==
    /\ toc_entries' = r.toc_entries
    /\ pc' = IF r.raised = "" THEN "loaded" ELSE "error"

LoadTocFrom(toc_files) ==
    /\ pc = "start"
    /\ \E toc_file \in toc_files :
        IF toc_file.exists
        THEN TocLoaded(load_toc_from_file(toc_file, toc_entries))
        ELSE /\ toc_entries' = toc_entries
             /\ pc' = "loaded"
    /\ UNCHANGED <<document_files, document_hierarchy, arg, ret, validations>>

ScanDocumentFilesFrom(content_dirs) ==
    /\ pc = "loaded"
    /\ \E content_dir \in content_dirs :
        document_files' = scan_document_files(content_dir)
    /\ pc' = "scanned"
    /\ UNCHANGED <<toc_entries, document_hierarchy, arg, ret, validations>>

LoadToc == LoadTocFrom(TocFiles)

ScanDocumentFiles == ScanDocumentFilesFrom(ContentDirs)

BuildHierarchy ==
    /\ pc = "scanned"
    /\ document_hierarchy' = build_hierarchy(toc_entries, document_files)
    /\ pc' = "built"
    /\ UNCHANGED <<toc_entries, document_files, arg, ret, validations>>

CalculateAlignmentMetrics ==
    /\ pc = "built"
    /\ ret' = [op |-> "calculate_alignment_metrics",
               value |-> calculate_alignment_metrics(document_hierarchy, document_files)]
    /\ UNCHANGED <<pc, toc_entries, document_files, document_hierarchy, arg, validations>>

GetMissingDocuments ==
    /\ pc = "built"
    /\ ret' = [op |-> "get_missing_documents",
               value |-> get_missing_documents(document_hierarchy)]
    /\ UNCHANGED <<pc, toc_entries, document_files, document_hierarchy, arg, validations>>

\* get_orphaned_files that filters self.document_files in place.
GetOrphanedFilesInPlace ==
    /\ pc = "built"
    /\ document_files' = get_orphaned_files(document_hierarchy, document_files)
    /\ ret' = [op |-> "get_orphaned_files", value |-> document_files']
    /\ UNCHANGED <<pc, toc_entries, document_hierarchy, arg, validations>>

GetOrphanedFiles ==
    /\ pc = "built"
    /\ ret' = [op |-> "get_orphaned_files",
               value |-> get_orphaned_files(document_hierarchy, document_files)]
    /\ UNCHANGED <<pc, toc_entries, document_files, document_hierarchy, arg, validations>>

GenerateAlignmentReport ==
    /\ pc = "built"
    /\ ret' = [op |-> "generate_alignment_report",
               value |-> generate_alignment_report(document_hierarchy, document_files)]
    /\ UNCHANGED <<pc, toc_entries, document_files, document_hierarchy, arg, validations>>

Next ==
    \/ LoadToc
    \/ ScanDocumentFiles
    \/ BuildHierarchy
    \/ CalculateAlignmentMetrics
    \/ GetMissingDocuments
    \/ GetOrphanedFiles
    \/ GenerateAlignmentReport

Spec == Init /\ [][Next]_vars

(***************************************************************************)
(* The same run on a long TOC: documents 1.04 and 1.05 and up to           *)
(* MaxLongToc entries, so that a document has more subsections than the    *)
(* report's document_hierarchy shows inline.                               *)
(***************************************************************************)
MaxLongToc == 8

LongTocItemPool ==
    {[number |-> N104, title |-> "Streets"],
     [number |-> N105, title |-> "Parks"],
     [number |-> N10410, title |-> "Width"]}

LongTocFiles ==
    {[exists |-> TRUE, readable |-> TRUE, shape |-> "toc_dict", items |-> it] :
        it \in SeqsUpTo(LongTocItemPool, MaxLongToc)}

LongContentDirs ==
    {[exists |-> TRUE, listing |-> l] : l \in {<<>>, <<Name(N104)>>}}

LongLoadToc == LoadTocFrom(LongTocFiles)

LongScanDocumentFiles == ScanDocumentFilesFrom(LongContentDirs)

LongNext ==
    \/ LongLoadToc
    \/ LongScanDocumentFiles
    \/ BuildHierarchy
    \/ CalculateAlignmentMetrics
    \/ GetMissingDocuments
    \/ GetOrphanedFiles
    \/ GenerateAlignmentReport

SpecLong == Init /\ [][LongNext]_vars

(***************************************************************************)
(* AlignmentMetrics.alignment_percentage on the metrics of up to MaxDocs   *)
(* documents.                                                              *)
(***************************************************************************)
PctInit ==
    /\ pc = "metrics"
    /\ toc_entries = <<>>
    /\ document_files = <<>>
    /\ document_hierarchy = <<>>
    /\ arg \in {AlignmentMetrics(t, w, t - w, 0, 0) : t \in 0..MaxDocs, w \in 0..MaxDocs}
    /\ arg.documents_with_files <= arg.total_documents
    /\ ret = NoCall
    /\ validations = <<>>

CallAlignmentPercentage ==
    /\ pc = "metrics"
    /\ ret' = [op |-> "alignment_percentage", value |-> alignment_percentage(arg)]
    /\ UNCHANGED <<pc, toc_entries, document_files, document_hierarchy, arg, validations>>

PctNext == CallAlignmentPercentage

SpecPct == PctInit /\ [][PctNext]_vars

(***************************************************************************)
(* load_toc_from_file on the payloads of every shape, on a registry that   *)
(* is new or holds the entries of an earlier load.                         *)
(***************************************************************************)
MaxPairs == 2

TextHeader == <<"S", "E", "C", "T", "I", "O", "N", " ", "1", ".", "0", "4", "0", "0", " ", "S", "T", "R", "E", "E", "T", "S">>

TextSubsection == <<"1", ".", "0", "4", "1", "0", " ", "W", "i", "d", "t", "h">>

TextPlain == <<"C", "o", "n", "t", "e", "n", "t", "s">>

TextPool == {TextHeader, TextSubsection, TextPlain}

\* The values of an object's members: scalars, objects with and without
\* 'text', and arrays that are empty, hold no object with 'text', or hold one.
JsonValuePool ==
    {JScalar, JObject, JList(<<>>), JList(<<JScalar>>)}
    \cup {JTextObject(t) : t \in TextPool}
    \cup {JList(<<JTextObject(t)>>) : t \in TextPool}
    \cup {JList(<<JObject, JTextObject(TextSubsection)>>)}

KeyPool == {"pages", "content", "meta"}

\* The members of an object without 'toc', in the order of the file.
PairLists(n) ==
    {s \in SeqsUpTo([key : KeyPool, value : JsonValuePool], n) :
        \A i, j \in 1..Len(s) : s[i].key = s[j].key => i = j}

TocPayload(readable, shape, items, pairs) ==
    [exists |-> TRUE, readable |-> readable, shape |-> shape, items |-> items, pairs |-> pairs]

LoadPayloads ==
    {TocPayload(TRUE, "dict", <<>>, ps) : ps \in PairLists(MaxPairs)}
    \cup {TocPayload(TRUE, sh, it, <<>>) :
            sh \in {"toc_dict", "list"}, it \in SeqsUpTo(LongTocItemPool, 1)}
    \cup {TocPayload(TRUE, sh, it \o <<JScalar>> \o it, <<>>) :
            sh \in {"toc_dict", "list"}, it \in SeqsUpTo(LongTocItemPool, 1)}
    \cup {TocPayload(TRUE, "scalar", <<>>, <<>>), TocPayload(FALSE, "none", <<>>, <<>>)}

\* The entries of an earlier load.
EarlierEntries == {<<>>, <<TOCEntry(N105, "Parks", None, 0)>>}

LoadInit ==
    /\ pc = "registry"
    /\ toc_entries \in EarlierEntries
    /\ document_files = <<>>
    /\ document_hierarchy = <<>>
    /\ arg \in LoadPayloads
    /\ ret = NoCall
    /\ validations = <<>>

\* The registry and the outcome of the call after load_toc_from_file.
TocFileLoaded(r) ==
    /\ toc_entries' = r.toc_entries
    /\ ret' = [op |-> "load_toc_from_file", value |-> r.raised]

CallLoadTocFromFile ==
    /\ pc = "registry"
    /\ TocFileLoaded(load_toc_from_file(arg, toc_entries))
    /\ UNCHANGED <<pc, document_files, document_hierarchy, arg, validations>>

LoadNext == CallLoadTocFromFile

SpecLoad == LoadInit /\ [][LoadNext]_vars

(***************************************************************************)
(* The page-text path on the texts of up to MaxPages pages: the entries    *)
(* extract_toc_entries_from_text returns and those load_toc_from_file      *)
(* stores.                                                                 *)
(***************************************************************************)
MaxPages == 3

TextHeaderShort == <<"S", "E", "C", "T", "I", "O", "N", " ", "1", ".", "0", "5", " ", "P", "A", "R", "K", "S">>

TextTwoSubsections == <<"1", ".", "0", "4", "1", "0", " ", "W", "i", "d", "t", "h", " ", "1", ".", "0", "4", "1", "1", " ", "G", "r", "a", "d", "e">>

PageTextPool == TextPool \cup {TextHeaderShort, TextTwoSubsections}

\* A payload whose 'pages' hold the given texts.
PagesPayload(texts) ==
    TocPayload(TRUE, "dict", <<>>,
               <<[key |-> "pages",
                  value |-> JList([i \in 1..Len(texts) |-> JTextObject(texts[i])])]>>)

TextInit ==
    /\ pc = "registry"
    /\ toc_entries \in EarlierEntries
    /\ document_files = <<>>
    /\ document_hierarchy = <<>>
    /\ arg \in {PagesPayload(texts) : texts \in SeqsUpTo(PageTextPool, MaxPages)}
    /\ ret = NoCall
    /\ validations = <<>>

CallExtractTocEntriesFromText ==
    /\ pc = "registry"
    /\ ret' = [op |-> "extract_toc_entries_from_text",
               value |-> extract_toc_entries_from_text(parse_toc_text_content(arg.pairs))]
    /\ UNCHANGED <<pc, toc_entries, document_files, document_hierarchy, arg, validations>>

TextNext ==
    \/ CallExtractTocEntriesFromText
    \/ CallLoadTocFromFile

SpecText == TextInit /\ [][TextNext]_vars

(***************************************************************************)
(* validate_subsection_content on a built registry.  The files of the      *)
(* content directory are in arg: their names in the order of the scan,     *)
(* whether open and json.load succeed, and the JSON value they hold.       *)
(***************************************************************************)
MaxValToc == 3

JString(text) == [kind |-> "str", has_text |-> FALSE, text |-> text, items |-> <<>>]

\* The body of repr(s) of a str without quotes in it: backslash, newline,
\* carriage return and tab are written as escapes.
RECURSIVE EscapeFrom(_, _)
EscapeFrom(s, i) ==
    IF i > Len(s) THEN <<>>
    ELSE (IF s[i] = NL THEN <<"\\", "n">>
          ELSE IF s[i] = "\t" THEN <<"\\", "t">>
          ELSE IF s[i] = "\r" THEN <<"\\", "r">>
          ELSE IF s[i] = "\\" THEN <<"\\", "\\">>
          ELSE <<s[i]>>)
         \o EscapeFrom(s, i + 1)

PyRepr(s) == <<"'">> \o EscapeFrom(s, 1) \o <<"'">>

\* str(content) of a parsed JSON value: a str is itself; inside an object
\* or an array it is written as its repr.
RECURSIVE PyReprValue(_)
RECURSIVE PyReprItemsFrom(_, _)
PyReprItemsFrom(items, i) ==
    IF i > Len(items) THEN <<>>
    ELSE (IF i > 1 THEN <<",", " ">> ELSE <<>>)
         \o PyReprValue(items[i]) \o PyReprItemsFrom(items, i + 1)

PyReprValue(value) ==
    IF value.kind = "str" THEN PyRepr(value.text)
    ELSE IF value.kind = "list" THEN <<"[">> \o PyReprItemsFrom(value.items, 1) \o <<"]">>
    ELSE IF value.has_text
    THEN <<"{", "'", "t", "e", "x", "t", "'", ":", " ">> \o PyRepr(value.text) \o <<"}">>
    ELSE <<"{", "}">>

PyStr(content) == IF content.kind = "str" THEN content.text ELSE PyReprValue(content)

\* haystack.startswith(needle)
ContainsAtStart(haystack, needle) ==
    Len(needle) <= Len(haystack) /\ SubSeq(haystack, 1, Len(needle)) = needle

\* needle in haystack
Contains(haystack, needle) ==
    \E i \in 1..(Len(haystack) - Len(needle) + 1) :
        SubSeq(haystack, i, i + Len(needle) - 1) = needle

FileOnDisk(name, readable, content) ==
    [name |-> name, readable |-> readable, content |-> content]

\* open(filepath) and json.load: the file of that path, when there is one
\* and it can be read and parsed.
OpenJson(disk, filepath) ==
    LET hits == {i \in 1..Len(disk) : FilePath(disk[i].name) = filepath /\ disk[i].readable}
    IN  IF hits = {} THEN [ok |-> FALSE, content |-> JObject]
        ELSE [ok |-> TRUE, content |-> disk[CHOOSE i \in hits : TRUE].content]

ValidationError(message, detail) == [error |-> <<message, detail>>]

\* The percentage as calculate_percentage gives it: 0 for no subsection.
ValidationPercentageZero(found, expected) ==
    IF expected = 0 THEN Rat(0, 1) ELSE Rat(found * 100, expected)

\* (len(found_subsections) / len(hierarchy.subsections) * 100)
\* if hierarchy.subsections else 100
ValidationPercentage(found, expected) ==
    IF expected > 0 THEN Rat(found * 100, expected) ELSE Rat(100, 1)

\* validate_subsection_content that reports the expected subsections as
\* found when the file cannot be read.
validate_subsection_content_unguarded(h, disk, number) ==
    IF ~DictHas(h, number)
    THEN ValidationError("not found in hierarchy", number)
    ELSE LET hierarchy == DictGet(h, number)
             numbers == [i \in 1..Len(hierarchy.subsections) |-> hierarchy.subsections[i].number]
             file == OpenJson(disk, hierarchy.file_info.filepath)
             text_content == IF file.ok THEN PyStr(file.content) ELSE <<>>
             found_subsections ==
                SelectSeq(numbers, LAMBDA n : Contains(text_content, n) \/ ~file.ok)
             missing_subsections ==
                SelectSeq(numbers, LAMBDA n : ~Contains(text_content, n) /\ file.ok)
         IN  [document_number |-> number,
              file_path |-> hierarchy.file_info.filepath,
              expected_subsections |-> Len(hierarchy.subsections),
              found_subsections |-> Len(found_subsections),
              missing_subsections |-> Len(missing_subsections),
              found_list |-> found_subsections,
              missing_list |-> missing_subsections,
              validation_percentage |->
                 ValidationPercentage(Len(found_subsections), Len(hierarchy.subsections))]

\* validate_subsection_content: the dictionary returned, an exception in
\* the try block giving the dictionary of the except clause.
validate_subsection_content(h, disk, number) ==
    IF ~DictHas(h, number)
    THEN ValidationError("not found in hierarchy", number)
    ELSE LET hierarchy == DictGet(h, number)
         IN  IF ~has_file(hierarchy)
             THEN ValidationError("No file found for document", number)
             ELSE LET file == OpenJson(disk, hierarchy.file_info.filepath)
                  IN  IF ~file.ok
                      THEN ValidationError("Failed to validate content",
                                           hierarchy.file_info.filepath)
                      ELSE LET text_content == PyStr(file.content)
                               numbers == [i \in 1..Len(hierarchy.subsections) |->
                                              hierarchy.subsections[i].number]
                               found_subsections ==
                                  SelectSeq(numbers, LAMBDA n : Contains(text_content, n))
                               missing_subsections ==
                                  SelectSeq(numbers, LAMBDA n : ~Contains(text_content, n))
                           IN  [document_number |-> number,
                                file_path |-> hierarchy.file_info.filepath,
                                expected_subsections |-> Len(hierarchy.subsections),
                                found_subsections |-> Len(found_subsections),
                                missing_subsections |-> Len(missing_subsections),
                                found_list |-> found_subsections,
                                missing_list |-> missing_subsections,
                                validation_percentage |->
                                   ValidationPercentage(Len(found_subsections),
                                                        Len(hierarchy.subsections))]

\* The loop of cmd_validate and cmd_report over document_hierarchy.items():
\* the result of every document that has a file, in the order of the keys.
RECURSIVE ValidateDocumentsFrom(_, _, _)
ValidateDocumentsFrom(h, disk, i) ==
    IF i > Len(h) THEN <<>>
    ELSE (IF has_file(h[i].value)
          THEN <<validate_subsection_content(h, disk, h[i].key)>>
          ELSE <<>>)
         \o ValidateDocumentsFrom(h, disk, i + 1)

validate_documents(h, disk) == ValidateDocumentsFrom(h, disk, 1)

ValTocItemPool ==
    {[number |-> N104, title |-> "Streets"],
     [number |-> N105, title |-> "Parks"],
     [number |-> N10410, title |-> "Width"],
     [number |-> N10411, title |-> "Grade"]}

\* What the file of document 1.04 holds: a str in which 1.0410 stands inside
\* 1.04100, an object whose text names both subsections on two lines, and an
\* array of a page that names 1.0411.
DocContentPool ==
    {JString(<<"s", "e", "e", " ", "1", ".", "0", "4", "1", "0", "0">>),
     JTextObject(<<"1", ".", "0", "4", "1", "0", NL, "1", ".", "0", "4", "1", "1">>),
     JList(<<JTextObject(<<"1", ".", "0", "4", "1", "1", " ", "G", "r", "a", "d", "e">>)>>)}

\* The files of the content directory: dc-1.04.json and dc-1.05.json, each
\* readable or not, in either order of the scan.
DiskPool ==
    LET f104 == {FileOnDisk(Name(N104), TRUE, c) : c \in DocContentPool}
                \cup {FileOnDisk(Name(N104), FALSE, JObject)}
        f105 == {FileOnDisk(Name(N105), r, JObject) : r \in BOOLEAN}
    IN  {<<>>} \cup {<<a>> : a \in f104 \cup f105}
        \cup {<<a, b>> : a \in f104, b \in f105}
        \cup {<<b, a>> : a \in f104, b \in f105}

DirectoryOf(disk) ==
    [exists |-> TRUE, listing |-> [i \in 1..Len(disk) |-> disk[i].name]]

\* The document numbers validate_subsection_content is called with; 9.99
\* is in no TOC.
ValidateNumbers == {N104, N105, <<"9", ".", "9", "9">>}

ValidateInit ==
    /\ pc = "built"
    /\ arg \in DiskPool
    /\ toc_entries \in {TocEntriesOf(it) : it \in SeqsUpTo(ValTocItemPool, MaxValToc)}
    /\ document_files = scan_document_files(DirectoryOf(arg))
    /\ document_hierarchy = build_hierarchy(toc_entries, document_files)
    /\ ret = NoCall
    /\ validations = <<>>

ValidateSubsectionContent ==
    /\ pc = "built"
    /\ \E n \in ValidateNumbers :
        ret' = [op |-> "validate_subsection_content",
                document_number |-> n,
                value |-> validate_subsection_content(document_hierarchy, arg, n)]
    /\ UNCHANGED <<pc, toc_entries, document_files, document_hierarchy, arg, validations>>

ValidateDocuments ==
    /\ pc = "built"
    /\ ret' = [op |-> "validate_documents",
               value |-> validate_documents(document_hierarchy, arg)]
    /\ UNCHANGED <<pc, toc_entries, document_files, document_hierarchy, arg, validations>>

ValidateNext ==
    \/ ValidateSubsectionContent
    \/ ValidateDocuments
    \/ CalculateAlignmentMetrics
    \/ GetMissingDocuments
    \/ GetOrphanedFiles
    \/ GenerateAlignmentReport

SpecValidate == ValidateInit /\ [][ValidateNext]_vars

(***************************************************************************)
(* document_registry_cli.py: one run of main.  arg is the command line and *)
(* what the run finds on disk; ret is what the run leaves: the output path *)
(* in use, the value the command returned, the exception it raised, the    *)
(* files written and the exit status.                                      *)
(***************************************************************************)
\* What scan_document_files finds in the content directory.
ListingOf(content_dir) ==
    [exists |-> content_dir.exists,
     listing |-> (IF content_dir.toc.exists THEN <<TocFileName>> ELSE <<>>)
                 \o [i \in 1..Len(content_dir.files) |-> content_dir.files[i].name]]

\* scan_document_files and build_hierarchy after the TOC was loaded (or was
\* not there); nothing more after an exception.
RegistryOf(loaded, files) ==
    IF loaded.raised # ""
    THEN [toc_entries |-> loaded.toc_entries, document_files |-> <<>>,
          document_hierarchy |-> <<>>, raised |-> loaded.raised]
    ELSE [toc_entries |-> loaded.toc_entries, document_files |-> files,
          document_hierarchy |-> build_hierarchy(loaded.toc_entries, files),
          raised |-> ""]

\* create_registry_for_location that refuses a content directory without a
\* TOC file.
create_registry_for_location_strict(content_dir) ==
    RegistryOf(IF content_dir.toc.exists
               THEN load_toc_from_file(content_dir.toc, <<>>)
               ELSE [toc_entries |-> <<>>, raised |-> "FileNotFoundError"],
               scan_document_files(ListingOf(content_dir)))

\* create_registry_for_location with the default TOC path: the registry it
\* returns, or the exception of load_toc_from_file.  A TOC file that does
\* not exist is not loaded.
create_registry_for_location(content_dir) ==
    RegistryOf(IF content_dir.toc.exists
               THEN load_toc_from_file(content_dir.toc, <<>>)
               ELSE [toc_entries |-> <<>>, raised |-> ""],
               scan_document_files(ListingOf(content_dir)))

\* The value of a command that returns None.
NoResult == [none |-> TRUE]

IsSuccessful(r) == "error" \notin DOMAIN r

RECURSIVE SumField(_, _, _)
SumField(rs, field, i) ==
    IF i > Len(rs) THEN 0 ELSE rs[i][field] + SumField(rs, field, i + 1)

\* sum of the validation percentages, as one fraction
RECURSIVE SumPercentages(_, _)
SumPercentages(rs, i) ==
    IF i > Len(rs) THEN Rat(0, 1)
    ELSE LET a == rs[i].validation_percentage
             b == SumPercentages(rs, i + 1)
         IN  Rat(a.num * b.den + b.num * a.den, a.den * b.den)

AveragePercentage(successful) ==
    LET total == SumPercentages(successful, 1)
    IN  Rat(total.num, total.den * Len(successful))

\* cmd_analyze: the report before it is saved.
cmd_analyze_result(h, files) ==
    [analysis_metadata |->
        [analysis_type |-> "hierarchical_alignment", validation_performed |-> FALSE]]
    @@ generate_alignment_report(h, files)

\* cmd_validate: the results before they are saved, None for a document
\* number that is no key of the hierarchy.
cmd_validate_result(h, disk, number) ==
    IF Truthy(number)
    THEN IF ~DictHas(h, number) THEN NoResult
         ELSE [validation_results |-> <<validate_subsection_content(h, disk, number)>>]
    ELSE LET validation_results == validate_documents(h, disk)
             successful == SelectSeq(validation_results, IsSuccessful)
             results == [total_documents_with_files |-> Len(validation_results),
                         successful_validations |-> Len(successful),
                         failed_validations |-> Len(validation_results) - Len(successful),
                         validation_results |-> validation_results]
         IN  IF successful # <<>>
             THEN [average_validation_percentage |-> AveragePercentage(successful),
                   total_expected_subsections |->
                      SumField(successful, "expected_subsections", 1),
                   total_found_subsections |->
                      SumField(successful, "found_subsections", 1)]
                  @@ results
             ELSE results

\* cmd_report: the comprehensive report before it is saved.
cmd_report_result(h, files, disk) ==
    LET validation_results == validate_documents(h, disk)
        successful == SelectSeq(validation_results, IsSuccessful)
    IN  [content_validation |-> validation_results,
         validation_summary |->
            [total_validations |-> Len(validation_results),
             successful_validations |-> Len(successful),
             average_validation_percentage |->
                IF successful # <<>> THEN AveragePercentage(successful) ELSE Rat(0, 1)],
         analysis_metadata |->
            [analysis_type |-> "comprehensive", validation_performed |-> TRUE]]
        @@ generate_alignment_report(h, files)

\* save_json_file that writes the file a second time.
save_json_file_twice(written, data, file_path) ==
    written \o <<[file_path |-> file_path, data |-> data],
                 [file_path |-> file_path, data |-> data]>>

\* utils.save_json_file: one more file written.
save_json_file(written, data, file_path) ==
    Append(written, [file_path |-> file_path, data |-> data])

\* main that ends with status 0 whenever the command raised nothing.
main_exit_code_lenient(result, raised) == IF raised # "" THEN 1 ELSE 0

\* The try block of main: sys.exit(1) for a command that returned None and
\* for an exception, otherwise the status of a process that just ends.
main_exit_code(result, raised) ==
    IF raised # "" THEN 1 ELSE IF result = NoResult THEN 1 ELSE 0

NoTocFile == [exists |-> FALSE, readable |-> FALSE, shape |-> "none", items |-> <<>>, pairs |-> <<>>]

\* The TOC file of a run: none, one that cannot be parsed, a scalar, and two
\* payloads with a 'toc' key.
CliTocPool ==
    {NoTocFile,
     TocPayload(FALSE, "none", <<>>, <<>>),
     TocPayload(TRUE, "scalar", <<>>, <<>>),
     TocPayload(TRUE, "toc_dict", <<[number |-> N104, title |-> "Streets"],
                                    [number |-> N10410, title |-> "Width"]>>, <<>>),
     TocPayload(TRUE, "toc_dict", <<[number |-> N104, title |-> "Streets"],
                                    [number |-> N105, title |-> "Parks"]>>, <<>>)}

CliDiskPool ==
    {<<>>,
     <<FileOnDisk(Name(N104), TRUE, JString(<<"s", "e", "e", " ", "1", ".", "0", "4", "1", "0", "0">>))>>,
     <<FileOnDisk(Name(N104), FALSE, JObject)>>,
     <<FileOnDisk(Name(N104), FALSE, JObject), FileOnDisk(Name(N105), TRUE, JObject)>>}

\* The content directory of a run.  parts_ok: the path has at least two
\* parts, which the default output path and ensure_directories_exist need;
\* writable: the directories and the output file can be created.
ContentDirectory(exists, parts_ok, writable, toc, files) ==
    [exists |-> exists, parts_ok |-> parts_ok, writable |-> writable, toc |-> toc, files |-> files]

CliContentDirs ==
    {ContentDirectory(TRUE, p, w, t, f) :
        p \in BOOLEAN, w \in BOOLEAN, t \in CliTocPool, f \in CliDiskPool}
    \cup {ContentDirectory(FALSE, p, TRUE, NoTocFile, <<>>) : p \in BOOLEAN}

\* The command lines: the command, --document-number (None when absent) and
\* --output ("" when absent).
Invocations ==
    [command : {"analyze", "validate", "report"},
     document_number : {None, N104, <<"9", ".", "9", "9">>},
     output : {"", "out.json"},
     content_dir : CliContentDirs]

DefaultOutput(command) ==
    IF command = "analyze" THEN "alignment_analysis.json"
    ELSE IF command = "validate" THEN "content_validation.json"
    ELSE "comprehensive_report.json"

CliInit ==
    /\ pc = "main"
    /\ toc_entries = <<>>
    /\ document_files = <<>>
    /\ document_hierarchy = <<>>
    /\ arg \in Invocations
    /\ ret = [output |-> arg.output, result |-> NoResult, raised |-> "",
              written |-> <<>>, exit_code |-> 0]
    /\ validations = <<>>

\* main up to the try block: the content directory is checked and the
\* default output path is set.
CliCheckContentDir ==
    /\ pc = "main"
    /\ IF ~arg.content_dir.exists
       THEN /\ pc' = "exited"
            /\ ret' = [ret EXCEPT !.exit_code = 1]
       ELSE /\ pc' = "command"
            /\ ret' = [ret EXCEPT !.output =
                          IF arg.output = "" /\ arg.content_dir.parts_ok
                          THEN DefaultOutput(arg.command)
                          ELSE arg.output]
    /\ UNCHANGED <<toc_entries, document_files, document_hierarchy, arg, validations>>

\* The first statement of each command: create_registry_for_location.
\* The run after create_registry_for_location returned r or raised.
RegistryCreated(r) ==
    /\ toc_entries' = r.toc_entries
    /\ document_files' = r.document_files
    /\ document_hierarchy' = r.document_hierarchy
    /\ IF r.raised # ""
       THEN /\ pc' = "exited"
            /\ ret' = [ret EXCEPT !.raised = r.raised,
                                  !.exit_code = main_exit_code(NoResult, r.raised)]
       ELSE /\ pc' = "registry"
            /\ ret' = ret

CliCreateRegistry ==
    /\ pc = "command"
    /\ RegistryCreated(create_registry_for_location(arg.content_dir))
    /\ UNCHANGED <<arg, validations>>

\* The command up to its save: the result is put together; cmd_validate
\* returns None for an unknown document number.
\* The run after the command put its result together.
ResultAssembled(result) ==
    IF result = NoResult
    THEN /\ pc' = "exited"
         /\ ret' = [ret EXCEPT !.exit_code = main_exit_code(NoResult, "")]
    ELSE /\ pc' = "assembled"
         /\ ret' = [ret EXCEPT !.result = result]

CliAssembleResult ==
    /\ pc = "registry"
    /\ ResultAssembled(
          IF arg.command = "analyze"
          THEN cmd_analyze_result(document_hierarchy, document_files)
          ELSE IF arg.command = "validate"
          THEN cmd_validate_result(document_hierarchy, arg.content_dir.files,
                                   arg.document_number)
          ELSE cmd_report_result(document_hierarchy, document_files,
                                 arg.content_dir.files))
    /\ UNCHANGED <<toc_entries, document_files, document_hierarchy, arg, validations>>

\* The end of the command and of main: with an output path the directories
\* are made and the result is saved, then the command returns.
CliSaveAndExit ==
    /\ pc = "assembled"
    /\ pc' = "exited"
    /\ IF ret.output = ""
       THEN ret' = [ret EXCEPT !.exit_code = main_exit_code(ret.result, "")]
       ELSE IF ~arg.content_dir.parts_ok
       THEN ret' = [ret EXCEPT !.raised = "TypeError",
                               !.exit_code = main_exit_code(NoResult, "TypeError")]
       ELSE IF ~arg.content_dir.writable
       THEN ret' = [ret EXCEPT !.raised = "OSError",
                               !.exit_code = main_exit_code(NoResult, "OSError")]
       ELSE ret' = [ret EXCEPT !.written = save_json_file(ret.written, ret.result, ret.output),
                               !.exit_code = main_exit_code(ret.result, "")]
    /\ UNCHANGED <<toc_entries, document_files, document_hierarchy, arg, validations>>

CliNext ==
    \/ CliCheckContentDir
    \/ CliCreateRegistry
    \/ CliAssembleResult
    \/ CliSaveAndExit

SpecCli == CliInit /\ [][CliNext]_vars

(***************************************************************************)
(* Repeated calls of validate_subsection_content on a built registry, the  *)
(* other read-only calls between them; validations keeps what each call    *)
(* returned.                                                               *)
(***************************************************************************)
MaxCalls == 3

RepeatTocLists ==
    {<<[number |-> N104, title |-> "Streets"], [number |-> N10410, title |-> "Width"],
       [number |-> N10411, title |-> "Grade"]>>,
     <<[number |-> N104, title |-> "Streets"], [number |-> N105, title |-> "Parks"]>>,
     <<[number |-> N105, title |-> "Parks"]>>}

RepeatInit ==
    /\ pc = "built"
    /\ arg \in CliDiskPool
    /\ toc_entries \in {TocEntriesOf(it) : it \in RepeatTocLists}
    /\ document_files = scan_document_files(DirectoryOf(arg))
    /\ document_hierarchy = build_hierarchy(toc_entries, document_files)
    /\ ret = NoCall
    /\ validations = <<>>

\* The call for document number n returned value.
ValidationReturned(n, value) ==
    /\ ret' = [op |-> "validate_subsection_content", document_number |-> n, value |-> value]
    /\ validations' = Append(validations, [document_number |-> n, value |-> value])

\* validate_subsection_content that takes the subsections it has checked
\* out of the document.
RepeatValidateConsuming ==
    /\ pc = "built"
    /\ Len(validations) < MaxCalls
    /\ \E n \in ValidateNumbers :
        /\ ValidationReturned(n, validate_subsection_content(document_hierarchy, arg, n))
        /\ document_hierarchy' =
             [i \in 1..Len(document_hierarchy) |->
                IF document_hierarchy[i].key = n
                THEN [key |-> n,
                      value |-> [document_hierarchy[i].value EXCEPT !.subsections = <<>>]]
                ELSE document_hierarchy[i]]
    /\ UNCHANGED <<pc, toc_entries, document_files, arg>>

RepeatValidateSubsectionContent ==
    /\ pc = "built"
    /\ Len(validations) < MaxCalls
    /\ \E n \in ValidateNumbers :
        ValidationReturned(n, validate_subsection_content(document_hierarchy, arg, n))
    /\ UNCHANGED <<pc, toc_entries, document_files, document_hierarchy, arg>>

RepeatNext ==
    \/ RepeatValidateSubsectionContent
    \/ ValidateDocuments
    \/ CalculateAlignmentMetrics
    \/ GetMissingDocuments
    \/ GetOrphanedFiles
    \/ GenerateAlignmentReport

SpecRepeat == RepeatInit /\ [][RepeatNext]_vars

(***************************************************************************)
(* extract_number_from_filename on arbitrary file names, and the registry  *)
(* built over a directory that holds a file of such a name, alone or       *)
(* beside dc-1.10.json.                                                    *)
(***************************************************************************)
MaxNameLen == 5

NameAlphabet == {"0", "1", ".", "a"}

N110 == <<"1", ".", "1", "0">>

\* The names '*.json' matches, the stem of up to n characters.
JsonNames(n) ==
    {stem \o <<".", "j", "s", "o", "n">> : stem \in UNION {[1..k -> NameAlphabet] : k \in 1..n}}

\* The TOC of these runs: documents 1.10, 0.10 and 1.01, and entries with a
\* 1-digit and a 3-digit fraction, which are no documents.
FileTocItems ==
    <<[number |-> N110, title |-> "Streets"],
      [number |-> <<"1", ".", "1">>, title |-> "Odd"],
      [number |-> <<"0", ".", "1", "0">>, title |-> "Parks"],
      [number |-> <<"1", ".", "0", "1">>, title |-> "Lots"],
      [number |-> <<"1", ".", "1", "0", "1">>, title |-> "Long"]>>

FileListings(name) == {<<name>>, <<name, Name(N110)>>, <<Name(N110), name>>}

FileInit ==
    /\ pc = "scanned"
    /\ toc_entries = TocEntriesOf(FileTocItems)
    /\ arg \in JsonNames(MaxNameLen)
    /\ \E l \in FileListings(arg) :
        document_files = scan_document_files([exists |-> TRUE, listing |-> l])
    /\ document_hierarchy = <<>>
    /\ ret = NoCall
    /\ validations = <<>>

CallExtractNumberFromFilename ==
    /\ ret' = [op |-> "extract_number_from_filename",
               value |-> extract_number_from_filename(arg)]
    /\ UNCHANGED <<pc, toc_entries, document_files, document_hierarchy, arg, validations>>

FileNext ==
    \/ CallExtractNumberFromFilename
    \/ BuildHierarchy
    \/ GetOrphanedFiles

SpecFile == FileInit /\ [][FileNext]_vars

(***************************************************************************)
(* scan_document_files on a directory given by its entries, then           *)
(* build_hierarchy and the reports.  An entry is a name the directory      *)
(* holds itself or a name further down in a subdirectory.                  *)
(***************************************************************************)
MaxEntries == 3

DirEntry(name, nested) == [name |-> name, nested |-> nested]

\* Whether fnmatch takes the name for '*.json'.
MatchesJson(name) ==
    Len(name) >= 5 /\ SubSeq(name, Len(name) - 4, Len(name)) = <<".", "j", "s", "o", "n">>

\* content_path.glob('*.json'): the names of the directory itself that
\* match, in the order the directory gives them.
glob_json(entries) ==
    LET direct == SelectSeq(entries, LAMBDA e : ~e.nested /\ MatchesJson(e.name))
    IN  [i \in 1..Len(direct) |-> direct[i].name]

\* The entries a directory is drawn from: the TOC file, dc-1.04.json, a
\* file whose name ends like the TOC file's, dc-1.04.txt, and dc-1.05.json
\* and a second TOC file in a subdirectory.
DirEntryPool ==
    {DirEntry(TocFileName, FALSE),
     DirEntry(Name(N104), FALSE),
     DirEntry(<<"1", ".", "0", "5", "-">> \o TocFileName, FALSE),
     DirEntry(<<"d", "c", "-">> \o N104 \o <<".", "t", "x", "t">>, FALSE),
     DirEntry(Name(N105), TRUE),
     DirEntry(TocFileName, TRUE)}

ScanDirs ==
    {[exists |-> TRUE, entries |-> es] :
        es \in {s \in SeqsUpTo(DirEntryPool, MaxEntries) : Injective(s)}}
    \cup {[exists |-> FALSE, entries |-> <<>>]}

ScanInit ==
    /\ pc = "loaded"
    /\ toc_entries = TocEntriesOf(<<[number |-> N104, title |-> "Streets"],
                                    [number |-> N105, title |-> "Parks"]>>)
    /\ document_files \in {<<>>, <<DocumentFile(Name(N105), FilePath(Name(N105)))>>}
    /\ document_hierarchy = <<>>
    /\ arg \in ScanDirs
    /\ ret = NoCall
    /\ validations = <<>>

ScanDirectory ==
    ScanDocumentFilesFrom({[exists |-> arg.exists, listing |-> glob_json(arg.entries)]})

ScanNext ==
    \/ ScanDirectory
    \/ BuildHierarchy
    \/ CalculateAlignmentMetrics
    \/ GetOrphanedFiles

SpecScan == ScanInit /\ [][ScanNext]_vars

(***************************************************************************)
(* load_toc_from_file, scan_document_files and build_hierarchy called on   *)
(* one registry in any order, build_hierarchy up to MaxBuilds times; arg   *)
(* counts the calls of build_hierarchy.                                    *)
(***************************************************************************)
MaxAnyToc == 2
MaxBuilds == 2

AnyTocFiles ==
    {TocPayload(TRUE, "toc_dict", it, <<>>) : it \in SeqsUpTo(LongTocItemPool, MaxAnyToc)}
    \cup {TocPayload(TRUE, "scalar", <<>>, <<>>), TocPayload(FALSE, "none", <<>>, <<>>)}

\* dc-1.04.json alone, after dc-1.0400.json, dc-1.05.json alone, an empty
\* directory and no directory.
AnyContentDirs ==
    {[exists |-> TRUE, listing |-> l] :
        l \in {<<>>, <<Name(N104)>>, <<Name(<<"1", ".", "0", "4", "0", "0">>), Name(N104)>>,
               <<Name(N105)>>}}
    \cup {[exists |-> FALSE, listing |-> <<>>]}

AnyInit ==
    /\ pc = "registry"
    /\ toc_entries = <<>>
    /\ document_files = <<>>
    /\ document_hierarchy = <<>>
    /\ arg = 0
    /\ ret = NoCall
    /\ validations = <<>>

AnyLoadToc ==
    /\ pc = "registry"
    /\ \E toc_file \in AnyTocFiles : TocFileLoaded(load_toc_from_file(toc_file, toc_entries))
    /\ UNCHANGED <<pc, document_files, document_hierarchy, arg, validations>>

AnyScanDocumentFiles ==
    /\ pc = "registry"
    /\ \E content_dir \in AnyContentDirs :
        /\ document_files' = scan_document_files(content_dir)
        /\ ret' = [op |-> "scan_document_files", content_dir |-> content_dir]
    /\ UNCHANGED <<pc, toc_entries, document_hierarchy, arg, validations>>

\* build_hierarchy without self.document_hierarchy = {}: the documents, the
\* subsections and the files are put into the hierarchy as it stands.
AnyBuildHierarchyOnOld ==
    /\ pc = "registry"
    /\ arg < MaxBuilds
    /\ document_hierarchy' =
         MatchFiles(document_files,
             AssignSubsections(SelectSeq(toc_entries, LAMBDA e : is_subsection(e.number)),
                 CreateDocuments(SelectSeq(toc_entries, LAMBDA e : is_document_level(e.number)),
                                 document_hierarchy)))
    /\ ret' = [op |-> "build_hierarchy"]
    /\ arg' = arg + 1
    /\ UNCHANGED <<pc, toc_entries, document_files, validations>>

AnyBuildHierarchy ==
    /\ pc = "registry"
    /\ arg < MaxBuilds
    /\ document_hierarchy' = build_hierarchy(toc_entries, document_files)
    /\ ret' = [op |-> "build_hierarchy"]
    /\ arg' = arg + 1
    /\ UNCHANGED <<pc, toc_entries, document_files, validations>>

AnyNext ==
    \/ AnyLoadToc
    \/ AnyScanDocumentFiles
    \/ AnyBuildHierarchy

SpecAny == AnyInit /\ [][AnyNext]_vars

(***************************************************************************)
(* archive_and_test.py: ArchiveAndTestRunner.run_full_test_suite and main. *)
(* The registry's results are inputs here: what run_alignment_analysis and *)
(* run_content_validation return.  Percentages of the alignment are in     *)
(* hundredths, rounded differences in tenths.  arg holds the baseline      *)
(* file, the run's timestamp and the entries of archive/test_runs when the *)
(* run starts; ret holds the runner and the entries of archive/test_runs   *)
(* as they are.  A list of validations is held as [results |-> it],  *)
(* None as NoResult.                                                       *)
(***************************************************************************)
MaxRuns == 6

\* archive_previous_runs(self, keep_latest=5)
KeepLatest == 5

\* round(x, 1) of the fraction x, in tenths: the nearest tenth; for a
\* fraction half way between two tenths the float decides, either of them.
Round1(x) ==
    LET n == x.num * 10
        q == n \div x.den
        r == n % x.den
    IN  IF 2 * r < x.den THEN {q}
        ELSE IF 2 * r > x.den THEN {q + 1}
        ELSE {q, q + 1}

\* What load_baseline finds: no file, a file that cannot be parsed, a file
\* without summary_metrics, or summary_metrics with total_documents and
\* alignment_percentage, and documents_with_files when complete.
BaselineFile(file, complete, percentage) ==
    [file |-> file, complete |-> complete, alignment_percentage |-> percentage]

\* load_baseline: whether it returns True.
load_baseline(baseline_file) == baseline_file.file = "summary"

\* The average of the successful validations, 0 when there is none.
avg_validation_percentage(current_validation) ==
    LET successful == SelectSeq(current_validation, IsSuccessful)
        total == SumPercentages(successful, 1)
    IN  Rat(total.num, total.den * (IF Len(successful) > 1 THEN Len(successful) ELSE 1))

\* comparison['status'] for the two rounded differences, in tenths.
Status(alignment, validation) ==
    IF alignment < -10 \/ validation < -50 THEN "FAIL"
    ELSE IF alignment < 0 \/ validation < 0 THEN "WARN"
    ELSE "PASS"

\* Whether compare_with_baseline returns None for missing data.
MissingData(current_alignment, current_validation) ==
    \/ current_alignment = NoResult
    \/ current_validation = NoResult
    \/ current_validation = [results |-> <<>>]

\* The comparisons compare_with_baseline may return for data that is there.
Comparisons(baseline_data, current_alignment, current_validation) ==
    LET avg == avg_validation_percentage(current_validation.results)
        alignment == Rat(current_alignment.alignment_percentage
                           - baseline_data.alignment_percentage, 100)
        validation == Rat(avg.num * 10 - 963 * avg.den, avg.den * 10)
    IN  {[status |-> Status(da, dv),
          differences |-> [alignment_percentage |-> da, avg_validation_percentage |-> dv]] :
            da \in Round1(alignment), dv \in Round1(validation)}

\* The digits of a timestamp, in the order of their characters.
DigitChars == <<"0", "1", "2", "3", "4", "5", "6", "7", "8", "9">>

DigitValue(c) == CHOOSE n \in 1..10 : DigitChars[n] = c

\* a > b for two str.
NameGreater(a, b) ==
    \/ Len(a) > Len(b) /\ SubSeq(a, 1, Len(b)) = b
    \/ \E i \in 1..Len(a) :
        /\ i <= Len(b)
        /\ SubSeq(a, 1, i - 1) = SubSeq(b, 1, i - 1)
        /\ DigitValue(a[i]) > DigitValue(b[i])

\* test_dirs.sort(key=lambda x: x.name, reverse=True)
RECURSIVE SortedByNameReverse(_)
SortedByNameReverse(names) ==
    IF names = {} THEN <<>>
    ELSE LET m == CHOOSE x \in names : \A y \in names \ {x} : NameGreater(x, y)
         IN  <<m>> \o SortedByNameReverse(names \ {m})

\* The names archive_previous_runs removes, given the sorted test_dirs.
RemovedFrom(test_dirs, keep_latest) ==
    {test_dirs[i] : i \in (keep_latest + 1)..Len(test_dirs)}

\* archive_previous_runs that counts the run's own directory among the
\* directories to keep.
archive_previous_runs_with_own(entries, timestamp, keep_latest) ==
    LET names == {e.name : e \in {x \in entries : x.is_dir}}
        removed == RemovedFrom(SortedByNameReverse(names), keep_latest) \ {timestamp}
    IN  {e \in entries : ~(e.is_dir /\ e.name \in removed)}

\* archive_previous_runs: the entries of test_runs it leaves.
archive_previous_runs(entries, timestamp, keep_latest) ==
    LET names == {e.name : e \in {x \in entries : x.is_dir /\ x.name # timestamp}}
        removed == RemovedFrom(SortedByNameReverse(names), keep_latest)
    IN  {e \in entries : ~(e.is_dir /\ e.name \in removed)}

\* The names of earlier runs: 01, 02, ...
RunName(n) == <<"0", DigitChars[n + 1]>>

\* The baseline files of the runs.
BaselineFiles ==
    {BaselineFile(f, FALSE, 0) : f \in {"missing", "unparsable", "no_summary"}}
    \cup {BaselineFile("summary", c, 8824) : c \in BOOLEAN}

\* The reports run_alignment_analysis returns when no exception is raised,
\* with their metrics.alignment_percentage.
AlignmentReports ==
    {[alignment_percentage |-> a] : a \in {9000, 8824, 8820, 8720, 8700}}

ValidationOf(num, den) == [validation_percentage |-> Rat(num, den)]

\* The lists run_content_validation returns when no exception is raised:
\* the validations of the documents with files.
ValidationLists ==
    {<<>>,
     <<ValidationOf(100, 1)>>,
     <<ValidationOf(4563, 50)>>,
     <<ValidationError("Failed to validate content", "")>>,
     <<ValidationOf(100, 1), ValidationError("Failed to validate content", "")>>,
     <<ValidationOf(963, 10), ValidationOf(963, 10)>>,
     <<ValidationOf(100, 1), ValidationOf(90, 1)>>}

\* The entries of archive/test_runs when the runner starts: directories of
\* earlier runs, a file, and the directory the runner has made for itself.
TestRuns(timestamp) ==
    {{[name |-> RunName(n), is_dir |-> TRUE] : n \in earlier}
        \cup {[name |-> <<"9", "9">>, is_dir |-> FALSE], [name |-> timestamp, is_dir |-> TRUE]} :
     earlier \in SUBSET (1..MaxRuns)}

Runner(test_runs, alignment_data, validation_data, comparison, status, success, exit_code) ==
    [test_runs |-> test_runs, alignment_data |-> alignment_data,
     validation_data |-> validation_data, comparison |-> comparison,
     status |-> status, success |-> success, exit_code |-> exit_code]

SuiteInit ==
    /\ pc = "suite"
    /\ toc_entries = <<>>
    /\ document_files = <<>>
    /\ document_hierarchy = <<>>
    /\ \E baseline \in BaselineFiles, timestamp \in {<<"0", "0">>, <<"1", "0">>} :
        \E test_runs \in TestRuns(timestamp) :
            /\ arg = [baseline |-> baseline, timestamp |-> timestamp, test_runs |-> test_runs]
            /\ ret = Runner(test_runs, NoResult, NoResult, NoResult, "", NoResult, NoResult)
    /\ validations = <<>>

SuiteLoadBaseline ==
    /\ pc = "suite"
    /\ IF load_baseline(arg.baseline)
       THEN pc' = "alignment" /\ ret' = ret
       ELSE pc' = "returned" /\ ret' = [ret EXCEPT !.success = FALSE]
    /\ UNCHANGED <<toc_entries, document_files, document_hierarchy, arg, validations>>

SuiteRunAlignmentAnalysis ==
    /\ pc = "alignment"
    /\ \/ \E report \in AlignmentReports : ret' = [ret EXCEPT !.alignment_data = report]
       \/ ret' = [ret EXCEPT !.alignment_data = NoResult]
    /\ pc' = "validation"
    /\ UNCHANGED <<toc_entries, document_files, document_hierarchy, arg, validations>>

SuiteRunContentValidation ==
    /\ pc = "validation"
    /\ \/ \E results \in ValidationLists : ret' = [ret EXCEPT !.validation_data = [results |-> results]]
       \/ ret' = [ret EXCEPT !.validation_data = NoResult]
    /\ pc' = "compare"
    /\ UNCHANGED <<toc_entries, document_files, document_hierarchy, arg, validations>>

\* compare_with_baseline: None for missing data, KeyError for a baseline
\* without documents_with_files, otherwise a comparison.
SuiteCompareWithBaseline ==
    /\ pc = "compare"
    /\ IF MissingData(ret.alignment_data, ret.validation_data)
       THEN pc' = "report" /\ ret' = ret
       ELSE IF ~arg.baseline.complete
       THEN pc' = "raised" /\ ret' = ret
       ELSE /\ pc' = "report"
            /\ \E c \in Comparisons(arg.baseline, ret.alignment_data, ret.validation_data) :
                ret' = [ret EXCEPT !.comparison = c]
    /\ UNCHANGED <<toc_entries, document_files, document_hierarchy, arg, validations>>

SuiteGenerateTestReport ==
    /\ pc = "report"
    /\ ret' = [ret EXCEPT !.status = IF ret.comparison = NoResult THEN "UNKNOWN"
                                     ELSE ret.comparison.status]
    /\ pc' = "archive"
    /\ UNCHANGED <<toc_entries, document_files, document_hierarchy, arg, validations>>

\* archive_previous_runs, and run_full_test_suite returns.
SuiteArchivePreviousRuns ==
    /\ pc = "archive"
    /\ ret' = [ret EXCEPT
                 !.test_runs = archive_previous_runs(ret.test_runs, arg.timestamp, KeepLatest),
                 !.success = ret.status \in {"PASS", "WARN"}]
    /\ pc' = "returned"
    /\ UNCHANGED <<toc_entries, document_files, document_hierarchy, arg, validations>>

\* main: sys.exit(0 if success else 1), and the exit of the interpreter
\* after the exception compare_with_baseline raised.
SuiteExit ==
    /\ pc \in {"returned", "raised"}
    /\ ret' = [ret EXCEPT !.exit_code = IF pc = "returned" /\ ret.success = TRUE THEN 0 ELSE 1]
    /\ pc' = "exited"
    /\ UNCHANGED <<toc_entries, document_files, document_hierarchy, arg, validations>>

SuiteNext ==
    \/ SuiteLoadBaseline
    \/ SuiteRunAlignmentAnalysis
    \/ SuiteRunContentValidation
    \/ SuiteCompareWithBaseline
    \/ SuiteGenerateTestReport
    \/ SuiteArchivePreviousRuns
    \/ SuiteExit

SpecSuite == SuiteInit /\ [][SuiteNext]_vars

(***************************************************************************)
(* Properties.  The shapes of numbers are stated here on their own, apart  *)
(* from the regular expressions of the code.                               *)
(***************************************************************************)
\* One or more digits, a dot and exactly w digits, and nothing else.
DigitsDotDigits(s, w) ==
    /\ Len(s) >= w + 2
    /\ s[Len(s) - w] = "."
    /\ \A k \in 1..Len(s) : k # Len(s) - w => s[k] \in Digits

DocumentShaped(s) == DigitsDotDigits(s, 2)

SubsectionShaped(s) == DigitsDotDigits(s, 4)

\* The parent number of a subsection-shaped number: its last two digits dropped.
ParentNumber(s) == SubSeq(s, 1, Len(s) - 2)

Built == pc = "built"

HierarchyKeys == DictKeys(document_hierarchy)

DocumentAt(k) == DictGet(document_hierarchy, k)

\* The TOC entries that are subsections of document number n, in TOC order.
TocSubsectionsOf(n) ==
    SelectSeq(toc_entries,
              LAMBDA e : SubsectionShaped(e.number) /\ ParentNumber(e.number) = n)

Range(s) == {s[i] : i \in 1..Len(s)}

Count(s, x) == Cardinality({i \in 1..Len(s) : s[i] = x})

\* C1: after build_hierarchy every document's subsections are exactly the
\* subsection entries of the TOC whose parent number is the document's number,
\* one element per TOC entry and in TOC order, wherever the document-level
\* entry stands in the TOC; a subsection whose parent number is no key of the
\* hierarchy is in no document's subsections.
C1_SubsectionsByParent ==
    Built =>
        /\ \A k \in HierarchyKeys :
            DocumentAt(k).subsections = TocSubsectionsOf(DocumentAt(k).document_number)
        /\ \A j \in 1..Len(toc_entries) :
            (/\ SubsectionShaped(toc_entries[j].number)
             /\ ParentNumber(toc_entries[j].number) \notin HierarchyKeys)
            => \A k \in HierarchyKeys :
                  toc_entries[j] \notin Range(DocumentAt(k).subsections)

\* A subsection stands before the document-level entry and another one after
\* it, and the document holds both, in TOC order.
C1_Witness ==
    /\ Built
    /\ Len(toc_entries) = 3
    /\ SubsectionShaped(toc_entries[1].number)
    /\ DocumentShaped(toc_entries[2].number)
    /\ SubsectionShaped(toc_entries[3].number)
    /\ toc_entries[1] # toc_entries[3]
    /\ toc_entries[2].number \in HierarchyKeys
    /\ DocumentAt(toc_entries[2].number).subsections
         = <<toc_entries[1], toc_entries[3]>>

\* The scan positions of the files whose document number is n.
FilesNumbered(n) ==
    {j \in 1..Len(document_files) :
        extract_number_from_filename(document_files[j].filename) = n}

Last(S) == CHOOSE x \in S : \A y \in S : y <= x

\* C2: after build_hierarchy a document's file_info is the last scanned file
\* whose number (extracted from the file name, cut to a 2-digit fraction) is
\* the document's number, and is unset when there is none; a file named with
\* 1.0400 attaches to document 1.04.
C2_LastFileWins ==
    Built =>
        /\ \A k \in HierarchyKeys :
            LET d == DocumentAt(k)
                S == FilesNumbered(d.document_number)
            IN  IF S = {} THEN d.file_info = NoFile
                ELSE d.file_info = document_files[Last(S)]
        /\ (/\ Len(document_files) > 0
            /\ document_files[Len(document_files)].filename
                 = Name(<<"1", ".", "0", "4", "0", "0">>)
            /\ N104 \in HierarchyKeys)
           => DocumentAt(N104).file_info = document_files[Len(document_files)]

\* Two scanned files give 1.04; dc-1.0400.json, scanned last, is the one attached.
C2_Witness ==
    /\ Built
    /\ Len(document_files) = 2
    /\ document_files[1].filename = Name(N104)
    /\ document_files[2].filename = Name(<<"1", ".", "0", "4", "0", "0">>)
    /\ N104 \in HierarchyKeys
    /\ DocumentAt(N104).file_info = document_files[2]

\* C3: after build_hierarchy every key of the hierarchy is document-level
\* shaped (digits, dot, exactly two digits) and is the document_number of the
\* document under it, keys are unique, a document has at most one attached
\* file, and every subsection of a document is subsection-shaped with the
\* document's key as parent number.
C3_HierarchyWellFormed ==
    Built =>
        /\ \A i, j \in 1..Len(document_hierarchy) :
            document_hierarchy[i].key = document_hierarchy[j].key => i = j
        /\ \A k \in HierarchyKeys :
            /\ DocumentShaped(k)
            /\ DocumentAt(k).document_number = k
            /\ \/ DocumentAt(k).file_info = NoFile
               \/ DocumentAt(k).file_info \in Range(document_files)
            /\ \A e \in Range(DocumentAt(k).subsections) :
                SubsectionShaped(e.number) /\ ParentNumber(e.number) = k

\* Whether the number extracted from a scanned file's name matches no
\* document-level TOC entry.
MatchesNoDocument(f) ==
    LET n == extract_number_from_filename(f.filename)
    IN  n = None \/ n \notin HierarchyKeys

\* C4: a scanned file is returned by get_orphaned_files, and listed in the
\* report's orphaned_files, if and only if its extracted number matches no
\* document-level TOC entry (none extracted, or no key of the hierarchy); such
\* a file is no document's file_info.
C4_OrphanedIffNoDocument ==
    /\ ret.op = "get_orphaned_files" =>
        \A f \in Range(document_files) :
            f \in Range(ret.value) <=> MatchesNoDocument(f)
    /\ ret.op = "generate_alignment_report" =>
        \A f \in Range(document_files) :
            (\E i \in 1..Len(ret.value.orphaned_files) :
                ret.value.orphaned_files[i].filename = f.filename)
            <=> MatchesNoDocument(f)
    /\ Built =>
        \A f \in Range(document_files) :
            MatchesNoDocument(f) =>
                \A k \in HierarchyKeys : DocumentAt(k).file_info # f

DocumentsWithFile == {k \in HierarchyKeys : DocumentAt(k).file_info # NoFile}

\* C5: calculate_alignment_metrics returns total_documents = number of keys,
\* documents_with_files = number of documents with a file,
\* documents_without_files = their difference, total_subsections = the sum of
\* the documents' subsection counts, orphaned_files = scanned files minus
\* distinct attached file names; none of the five is negative.
C5_AlignmentMetrics ==
    ret.op = "calculate_alignment_metrics" =>
        LET m == ret.value
        IN  /\ m.total_documents = Cardinality(HierarchyKeys)
            /\ m.documents_with_files = Cardinality(DocumentsWithFile)
            /\ m.documents_without_files = m.total_documents - m.documents_with_files
            /\ m.total_subsections =
                 Cardinality({<<k, j>> \in HierarchyKeys \X (1..Len(toc_entries)) :
                                 j <= Len(DocumentAt(k).subsections)})
            /\ m.orphaned_files =
                 Len(document_files)
                 - Cardinality({DocumentAt(k).file_info.filename : k \in DocumentsWithFile})
            /\ m.total_documents >= 0
            /\ m.documents_with_files >= 0
            /\ m.documents_without_files >= 0
            /\ m.total_subsections >= 0
            /\ m.orphaned_files >= 0

\* Two documents, one of them with a file, a subsection, and a scanned file
\* that no document holds.
C5_Witness ==
    /\ ret.op = "calculate_alignment_metrics"
    /\ ret.value.total_documents = 2
    /\ ret.value.documents_with_files = 1
    /\ ret.value.documents_without_files = 1
    /\ ret.value.total_subsections = 1
    /\ ret.value.orphaned_files = 1

\* C6: alignment_percentage is documents_with_files / total_documents * 100
\* when total_documents > 0 and 0 when total_documents = 0 (the division is
\* defined), lies in 0..100, and is 70 for 10 documents of which 7 have files.
C6_AlignmentPercentage ==
    ret.op = "alignment_percentage" =>
        LET p == ret.value
        IN  /\ p.den > 0
            /\ arg.total_documents > 0 =>
                 p.num * arg.total_documents = arg.documents_with_files * 100 * p.den
            /\ arg.total_documents = 0 => p.num = 0
            /\ 0 <= p.num
            /\ p.num <= 100 * p.den
            /\ (arg.total_documents = 10 /\ arg.documents_with_files = 7)
                 => p.num = 70 * p.den

\* The percentage of 10 documents of which 7 have files has been computed.
C6_Witness ==
    /\ ret.op = "alignment_percentage"
    /\ arg.total_documents = 10
    /\ arg.documents_with_files = 7
    /\ ret.value.num = 70 * ret.value.den

MissingKeys == HierarchyKeys \ DocumentsWithFile

\* C7: get_missing_documents returns exactly the documents without a file,
\* each once; the report's missing_documents has one element per such
\* document, with all of the document's subsections, and as many elements as
\* the documents_without_files metric says.
C7_MissingDocuments ==
    /\ ret.op = "get_missing_documents" =>
        /\ Range(ret.value) = {DocumentAt(k) : k \in MissingKeys}
        /\ Len(ret.value) = Cardinality(MissingKeys)
    /\ ret.op = "generate_alignment_report" =>
        LET r == ret.value
        IN  /\ Len(r.missing_documents) = Cardinality(MissingKeys)
            /\ Len(r.missing_documents) = r.metrics.documents_without_files
            /\ \A k \in MissingKeys :
                \E i \in 1..Len(r.missing_documents) :
                    /\ r.missing_documents[i].number = k
                    /\ Len(r.missing_documents[i].subsections)
                         = Len(DocumentAt(k).subsections)
                    /\ \A j \in 1..Len(DocumentAt(k).subsections) :
                        /\ r.missing_documents[i].subsections[j].number
                             = DocumentAt(k).subsections[j].number
                        /\ r.missing_documents[i].subsections[j].title
                             = DocumentAt(k).subsections[j].title

\* The report lists a document without a file that has more subsections than
\* the document_hierarchy summaries show, all of them.
C7_Witness ==
    /\ ret.op = "generate_alignment_report"
    /\ Len(ret.value.missing_documents) = 2
    /\ \E i \in 1..2 :
        /\ ret.value.missing_documents[i].subsection_count > ReportSubsectionLimit
        /\ Len(ret.value.missing_documents[i].subsections) > ReportSubsectionLimit

\* C8: is_document_level(s) is true exactly when s is one or more digits, a
\* dot and exactly two digits and nothing else, and is_subsection(s) exactly
\* when s is one or more digits, a dot and exactly four digits and nothing
\* else.
C8_ClassifierExactShape ==
    /\ ret.op = "is_document_level" => (ret.value <=> DocumentShaped(arg))
    /\ ret.op = "is_subsection" => (ret.value <=> SubsectionShaped(arg))

\* The first dot of a string that has one.
FirstDot(s) == CHOOSE i \in 1..Len(s) : s[i] = "." /\ \A j \in 1..(i - 1) : s[j] # "."

\* C9: when is_subsection(n) is true get_parent_document(n) is the integer
\* part, a dot and the first two digits of the fraction, a document-level
\* shaped number; when is_subsection(n) is false it is None.
C9_ParentOfSubsection ==
    ret.op = "get_parent_document" =>
        IF is_subsection(arg)
        THEN /\ ret.value = SubSeq(arg, 1, FirstDot(arg) + 2)
             /\ DocumentShaped(ret.value)
        ELSE ret.value = None

\* The TOC positions of the document-level entries numbered n.
TocDocumentPositions(n) ==
    {j \in 1..Len(toc_entries) :
        DocumentShaped(toc_entries[j].number) /\ toc_entries[j].number = n}

\* C10: when several document-level TOC entries have the same number, the
\* hierarchy holds exactly one document of that number, titled as the last of
\* them in TOC order, and every subsection entry of that number is attached to
\* it as many times as it stands in the TOC.
C10_DuplicateDocumentLastWins ==
    Built =>
        \A j \in 1..Len(toc_entries) :
            LET n == toc_entries[j].number
                P == TocDocumentPositions(n)
            IN  Cardinality(P) >= 2 =>
                  /\ Cardinality({i \in 1..Len(document_hierarchy) :
                                    document_hierarchy[i].key = n}) = 1
                  /\ DocumentAt(n).document_number = n
                  /\ DocumentAt(n).document_title = toc_entries[Last(P)].title
                  /\ Len(DocumentAt(n).subsections) = Len(TocSubsectionsOf(n))
                  /\ \A e \in Range(TocSubsectionsOf(n)) :
                        Count(DocumentAt(n).subsections, e) = Count(toc_entries, e)

\* Document 1.04 stands twice in the TOC under different titles with a
\* subsection between the two; the document carries the second title and the
\* subsection once.
C10_Witness ==
    /\ Built
    /\ Len(toc_entries) = 3
    /\ toc_entries[1].number = N104
    /\ toc_entries[3].number = N104
    /\ toc_entries[1].title # toc_entries[3].title
    /\ SubsectionShaped(toc_entries[2].number)
    /\ DocumentAt(N104).document_title = toc_entries[3].title
    /\ DocumentAt(N104).subsections = <<toc_entries[2]>>

\* The TOC entries whose number has the shape of a document or of a
\* subsection number, in TOC order.
WellShapedEntries ==
    SelectSeq(toc_entries,
              LAMBDA e : DocumentShaped(e.number) \/ SubsectionShaped(e.number))

\* C11: a TOC entry whose number has neither the shape of a document number
\* nor that of a subsection number (empty, without a dot, or with a fraction
\* of a length other than 2 or 4) creates no key of the hierarchy, is in no
\* document's subsections and changes no metric: the hierarchy and the metrics
\* are those of the TOC without the entry.
C11_MalformedNumbersIgnored ==
    Built =>
        /\ \A j \in 1..Len(toc_entries) :
            (~DocumentShaped(toc_entries[j].number) /\ ~SubsectionShaped(toc_entries[j].number))
            => /\ toc_entries[j].number \notin HierarchyKeys
               /\ \A k \in HierarchyKeys :
                    toc_entries[j] \notin Range(DocumentAt(k).subsections)
        /\ calculate_alignment_metrics(document_hierarchy, document_files)
             = calculate_alignment_metrics(build_hierarchy(WellShapedEntries, document_files),
                                           document_files)

\* Whether an object has a top-level member that is an object with 'text' or
\* an array holding an object with 'text'.
TextBearing(pairs) ==
    \E i \in 1..Len(pairs) :
        \/ pairs[i].value.kind = "dict" /\ pairs[i].value.has_text
        \/ /\ pairs[i].value.kind = "list"
           /\ \E j \in 1..Len(pairs[i].value.items) :
                pairs[i].value.items[j].kind = "dict" /\ pairs[i].value.items[j].has_text

Loaded == pc = "registry" /\ ret.op = "load_toc_from_file"

\* C12: for a payload that is neither an object with 'toc', nor an array,
\* nor an object with a text-bearing top-level value, load_toc_from_file
\* raises ValueError (it never returns with an empty list) and toc_entries
\* is empty afterwards.
C12_UnsupportedPayloadRaises ==
    (/\ Loaded
     /\ arg.readable
     /\ \/ arg.shape = "scalar"
        \/ arg.shape = "dict" /\ ~TextBearing(arg.pairs))
    => ret.value = "ValueError" /\ toc_entries = <<>>

\* An object of two members, none of them text-bearing, was refused.
C12_Witness ==
    /\ Loaded
    /\ arg.shape = "dict"
    /\ Len(arg.pairs) = 2
    /\ ~TextBearing(arg.pairs)
    /\ ret.value = "ValueError"
    /\ toc_entries = <<>>

\* C13: every object without 'toc' that has a text-bearing top-level value,
\* under 'pages' or any other key and whatever the other members hold, is
\* parsed through the text path without an exception, and no other object
\* without 'toc' is: the objects accepted are exactly those from which
\* parse_toc_text_content collects text.
C13_TextBearingAccepted ==
    (Loaded /\ arg.readable /\ arg.shape = "dict")
    => /\ TextBearing(arg.pairs) <=> parse_toc_text_content(arg.pairs) # <<>>
       /\ TextBearing(arg.pairs) <=> ret.value = ""
       /\ TextBearing(arg.pairs) => toc_entries = parse_toc_from_page_text(arg.pairs)

Validated == pc = "built" /\ ret.op = "validate_subsection_content"

\* Whether a file of that name is in the content directory and can be read
\* and parsed.
ReadableOnDisk(filename) ==
    \E i \in 1..Len(arg) : arg[i].name = filename /\ arg[i].readable

ContentOnDisk(filename) ==
    arg[CHOOSE i \in 1..Len(arg) : arg[i].name = filename /\ arg[i].readable].content

\* Whether validate_subsection_content is to give numbers for document n:
\* n is a key, a file is attached, and the file can be read.
Validatable(n) ==
    /\ n \in HierarchyKeys
    /\ DocumentAt(n).file_info # NoFile
    /\ ReadableOnDisk(DocumentAt(n).file_info.filename)

IsErrorResult(r) == DOMAIN r = {"error"}

\* C17: validate_subsection_content gives a dictionary with only 'error' for
\* a number that is no key of the hierarchy, for a document without a file
\* and for a file that cannot be read, and the batch over the hierarchy gives
\* one result per document with a file, in the order of the hierarchy, an
\* error result between the others where a file cannot be read.
C17_ValidationErrorsAreResults ==
    /\ Validated =>
        (IsErrorResult(ret.value) <=> ~Validatable(ret.document_number))
    /\ (pc = "built" /\ ret.op = "validate_documents") =>
        LET docs == SelectSeq(DictValues(document_hierarchy),
                              LAMBDA d : d.file_info # NoFile)
        IN  /\ Len(ret.value) = Len(docs)
            /\ \A i \in 1..Len(docs) :
                IF ReadableOnDisk(docs[i].file_info.filename)
                THEN /\ ~IsErrorResult(ret.value[i])
                     /\ ret.value[i].document_number = docs[i].document_number
                ELSE IsErrorResult(ret.value[i])

\* The batch gave an error for the first document and numbers for the second.
C17_Witness ==
    /\ pc = "built"
    /\ ret.op = "validate_documents"
    /\ Len(ret.value) = 2
    /\ IsErrorResult(ret.value[1])
    /\ ~IsErrorResult(ret.value[2])

\* Whether needle stands somewhere in text.
Occurs(needle, text) ==
    \E i \in 0..Len(text) : \E j \in i..Len(text) : SubSeq(text, i + 1, j) = needle

\* C18: for a document with a readable file, found_list and missing_list
\* hold every subsection of the document once between them, each in the
\* document's order, a subsection being in found_list exactly when its number
\* stands in the stringified content; found + missing = expected, and the
\* percentage is found / expected * 100 for expected > 0, within 0..100.
C18_FoundAndMissingPartition ==
    (Validated /\ Validatable(ret.document_number)) =>
        LET v == ret.value
            d == DocumentAt(ret.document_number)
            numbers == [i \in 1..Len(d.subsections) |-> d.subsections[i].number]
            text == PyStr(ContentOnDisk(d.file_info.filename))
        IN  /\ v.found_list = SelectSeq(numbers, LAMBDA n : n \in Range(v.found_list))
            /\ v.missing_list = SelectSeq(numbers, LAMBDA n : n \in Range(v.missing_list))
            /\ Range(v.found_list) \cap Range(v.missing_list) = {}
            /\ Len(v.found_list) + Len(v.missing_list) = Len(numbers)
            /\ \A n \in Range(numbers) : n \in Range(v.found_list) <=> Occurs(n, text)
            /\ v.expected_subsections = Len(numbers)
            /\ v.found_subsections = Len(v.found_list)
            /\ v.missing_subsections = Len(v.missing_list)
            /\ v.found_subsections + v.missing_subsections = v.expected_subsections
            /\ v.validation_percentage.den > 0
            /\ v.expected_subsections > 0
               => v.validation_percentage.num * v.expected_subsections
                    = v.found_subsections * 100 * v.validation_percentage.den
            /\ 0 <= v.validation_percentage.num
            /\ v.validation_percentage.num <= 100 * v.validation_percentage.den

\* Document 1.04 has the subsections 1.0410 and 1.0411, its file holds the
\* str 'see 1.04100': 1.0410 is found, 1.0411 is missing, at 50 percent.
C18_Witness ==
    /\ Validated
    /\ ret.document_number = N104
    /\ Validatable(N104)
    /\ ret.value.found_list = <<N10410>>
    /\ ret.value.missing_list = <<N10411>>
    /\ ret.value.validation_percentage = Rat(100, 2)

\* C19: validate_subsection_content for a document of the hierarchy that has
\* no subsection returns validation_percentage 100.
C19_ZeroSubsectionsAlwaysHundred ==
    (/\ Validated
     /\ ret.document_number \in HierarchyKeys
     /\ DocumentAt(ret.document_number).subsections = <<>>)
    => /\ "validation_percentage" \in DOMAIN ret.value
       /\ ret.value.validation_percentage.num = 100 * ret.value.validation_percentage.den

\* C19 as it holds: a document without subsections validates at 100 when it
\* has a file that can be read and parsed; without a file, or with a file
\* that cannot be read, the result is the error dictionary, which has no
\* validation_percentage.
C19_ZeroSubsectionsHundredOrError ==
    (/\ Validated
     /\ ret.document_number \in HierarchyKeys
     /\ DocumentAt(ret.document_number).subsections = <<>>)
    => IF Validatable(ret.document_number)
       THEN /\ "validation_percentage" \in DOMAIN ret.value
            /\ ret.value.validation_percentage.num
                 = 100 * ret.value.validation_percentage.den
            /\ ret.value.validation_percentage.den > 0
       ELSE IsErrorResult(ret.value)

\* Document 1.05 has no subsection and a readable file, and validates at 100.
C19_Witness ==
    /\ Validated
    /\ ret.document_number = N105
    /\ Validatable(N105)
    /\ DocumentAt(N105).subsections = <<>>
    /\ ret.value.expected_subsections = 0
    /\ ret.value.validation_percentage = Rat(100, 1)

Exited == pc = "exited"

\* The content directory is there and its TOC file is not.
TocFileMissing == arg.content_dir.exists /\ ~arg.content_dir.toc.exists

StopsOnInputError ==
    \/ ~arg.content_dir.exists
    \/ /\ arg.content_dir.toc.exists
       /\ ~arg.content_dir.toc.readable \/ arg.content_dir.toc.shape = "scalar"
    \/ /\ arg.command = "validate"
       /\ Truthy(arg.document_number)
       /\ arg.document_number \notin HierarchyKeys

\* C15: in a run of analyze, validate or report the output file is written
\* at most once, after the registry was built and with the complete result
\* of the command, and a run that stops on a configuration or input error
\* writes no file.
C15_OutputWrittenOnceAtEnd ==
    /\ Len(ret.written) <= 1
    /\ ret.written # <<>> =>
        /\ Exited
        /\ document_hierarchy = build_hierarchy(toc_entries, document_files)
        /\ ret.result # NoResult
        /\ ret.written[1] = [file_path |-> ret.output, data |-> ret.result]
    /\ StopsOnInputError => ret.written = <<>>

\* report wrote its one file, with the validation of a document in it.
C15_Witness ==
    /\ Exited
    /\ arg.command = "report"
    /\ Len(ret.written) = 1
    /\ ret.written[1].file_path = "comprehensive_report.json"
    /\ Len(ret.written[1].data.content_validation) = 1
    /\ ret.written[1].data.metrics.total_documents = 2

\* C16: main ends with status 1 when the content directory does not exist,
\* when the command raised an exception and when validate was given a
\* document number that is no key of the hierarchy; otherwise the command
\* returned a result and the status is 0.
C16_ExitCodes ==
    Exited =>
        IF \/ ~arg.content_dir.exists
           \/ ret.raised # ""
           \/ /\ arg.command = "validate"
              /\ Truthy(arg.document_number)
              /\ arg.document_number \notin HierarchyKeys
        THEN ret.exit_code = 1
        ELSE ret.exit_code = 0 /\ ret.result # NoResult

\* validate was given 9.99 on a registry with documents and ended with
\* status 1 without an exception.
C16_Witness ==
    /\ Exited
    /\ arg.command = "validate"
    /\ arg.document_number = <<"9", ".", "9", "9">>
    /\ document_hierarchy # <<>>
    /\ ret.raised = ""
    /\ ret.exit_code = 1
    /\ ret.written = <<>>

C21_ReadOnlyAfterBuild ==
    [][pc = "built" => UNCHANGED <<toc_entries, document_files, document_hierarchy>>]_vars

\* A validation returned an error on a registry that holds documents and an
\* attached file.
C21_Witness ==
    /\ Validated
    /\ IsErrorResult(ret.value)
    /\ \E k \in HierarchyKeys : DocumentAt(k).file_info # NoFile
    /\ toc_entries # <<>>

\* Whether s[i..j] is one or more digits, a dot and one or more digits.
NumberSubstring(s, i, j) ==
    \E d \in (i + 1)..(j - 1) :
        s[d] = "." /\ AllDigits(s, i, d - 1) /\ AllDigits(s, d + 1, j)

\* The first such substring of s, taken as long as it goes, or None.
FirstNumberSubstring(s) ==
    LET found == {p \in (1..Len(s)) \X (1..Len(s)) : NumberSubstring(s, p[1], p[2])}
    IN  IF found = {} THEN None
        ELSE LET i == CHOOSE x \in {p[1] : p \in found} : \A p \in found : x <= p[1]
                 j == CHOOSE y \in {p[2] : p \in found} :
                        /\ <<i, y>> \in found
                        /\ \A p \in found : p[1] = i => p[2] <= y
             IN  SubSeq(s, i, j)

\* The number of characters after the first dot of n.
FractionLength(n) == Len(n) - FirstDot(n)

\* C22: extract_number_from_filename returns the first substring of the file
\* name that is digits, a dot and digits, cut after the second digit of the
\* fraction when the fraction is longer, and None when there is no such
\* substring; the result never has a fraction of more than 2 digits; and a
\* file without such a number, or with a 1-digit fraction, is attached to no
\* document after build_hierarchy and is in the list of get_orphaned_files.
C22_FilenameNumber ==
    LET number == FirstNumberSubstring(arg)
    IN  /\ ret.op = "extract_number_from_filename" =>
            /\ ret.value = IF number = None THEN None
                           ELSE SubSeq(number, 1, Min(Len(number), FirstDot(number) + 2))
            /\ ret.value # None => FractionLength(ret.value) \in 1..2
        /\ (pc = "built" /\ (number = None \/ FractionLength(number) = 1)) =>
            /\ \A k \in HierarchyKeys : DocumentAt(k).file_info.filename # arg
            /\ ret.op = "get_orphaned_files" =>
                \E i \in 1..Len(ret.value) : ret.value[i].filename = arg

\* The file a1.1.json stands beside dc-1.10.json, which document 1.10 holds,
\* and get_orphaned_files lists a1.1.json alone.
C22_Witness ==
    /\ pc = "built"
    /\ arg = <<"a", "1", ".", "1", ".", "j", "s", "o", "n">>
    /\ ret.op = "get_orphaned_files"
    /\ Len(ret.value) = 1
    /\ ret.value[1].filename = arg
    /\ DocumentAt(N110).file_info.filename = Name(N110)

\* The names of the entries of the directory itself that end in .json and
\* are not the TOC file's name, in the order of the directory.
JsonFilesOtherThanToc ==
    LET kept == SelectSeq(arg.entries,
                          LAMBDA e : /\ ~e.nested
                                     /\ e.name # TocFileName
                                     /\ Len(e.name) >= 5
                                     /\ e.name = SubSeq(e.name, 1, Len(e.name) - 5)
                                                   \o <<".", "j", "s", "o", "n">>)
    IN  [i \in 1..Len(kept) |-> kept[i].name]

\* C23: after scan_document_files on an existing directory document_files
\* holds one DocumentFile for each *.json entry of the directory itself other
\* than dc-table-of-contents.json and nothing else, each with its name, its
\* path and extracted_number unset; the TOC file is then the file of no
\* document and is not in the list of get_orphaned_files.
C23_ScanListsJsonFilesButToc ==
    (pc \in {"scanned", "built"} /\ arg.exists) =>
        /\ Len(document_files) = Len(JsonFilesOtherThanToc)
        /\ \A i \in 1..Len(document_files) :
            /\ document_files[i].filename = JsonFilesOtherThanToc[i]
            /\ document_files[i].filepath = FilePath(JsonFilesOtherThanToc[i])
            /\ document_files[i].extracted_number = None
        /\ pc = "built" =>
            /\ \A k \in HierarchyKeys : DocumentAt(k).file_info.filename # TocFileName
            /\ ret.op = "get_orphaned_files" =>
                \A i \in 1..Len(ret.value) : ret.value[i].filename # TocFileName

\* The directory holds the TOC file, dc-1.04.json and 1.05-dc-table-of-
\* contents.json: documents 1.04 and 1.05 have these two files and the
\* orphaned list is empty.
C23_Witness ==
    /\ pc = "built"
    /\ arg.exists
    /\ Len(arg.entries) = 3
    /\ arg.entries[1] = DirEntry(TocFileName, FALSE)
    /\ Len(document_files) = 2
    /\ DocumentAt(N104).file_info.filename = Name(N104)
    /\ ret.op = "get_orphaned_files"
    /\ DocumentAt(N105).file_info.filename = <<"1", ".", "0", "5", "-">> \o TocFileName
    /\ ret.value = <<>>

IsNote(x) == DOMAIN x = {"note"}

\* C24: the report's document_hierarchy has one summary per document of the
\* hierarchy, in the order of the hierarchy; for a document with n
\* subsections subsection_count is n and the summary's subsections are the
\* number and title of its first min(n, 5) subsections in order, followed by
\* one note of n - 5 more when n > 5 and by nothing when n <= 5.
C24_ReportSummaries ==
    (pc = "built" /\ ret.op = "generate_alignment_report") =>
        LET docs == DictValues(document_hierarchy)
            sums == ret.value.document_hierarchy
        IN  /\ Len(sums) = Len(docs)
            /\ \A i \in 1..Len(docs) :
                LET n == Len(docs[i].subsections)
                    shown == IF n <= 5 THEN n ELSE 5
                    subs == sums[i].subsections
                IN  /\ sums[i].number = docs[i].document_number
                    /\ sums[i].subsection_count = n
                    /\ Len(subs) = IF n > 5 THEN 6 ELSE n
                    /\ \A j \in 1..shown :
                        /\ ~IsNote(subs[j])
                        /\ subs[j].number = docs[i].subsections[j].number
                        /\ subs[j].title = docs[i].subsections[j].title
                    /\ n > 5 => subs[6] = [note |-> n - 5]

\* The report of a hierarchy whose first document has 6 subsections, shown
\* as 5 and a note of 1 more, and whose second document has none.
C24_Witness ==
    /\ pc = "built"
    /\ ret.op = "generate_alignment_report"
    /\ Len(ret.value.document_hierarchy) = 2
    /\ ret.value.document_hierarchy[1].subsection_count = 6
    /\ ret.value.document_hierarchy[1].subsections[6] = [note |-> 1]
    /\ ret.value.document_hierarchy[2].subsections = <<>>

\* Whether the ends of the matches grow from one match to the next.
InTextOrder(matches) ==
    \A i \in 1..(Len(matches) - 1) : matches[i].end < matches[i + 1].end

\* A number cut after the second digit of its fraction.
CutToTwoDigits(n) == SubSeq(n, 1, Min(Len(n), FirstDot(n) + 2))

\* C25: extract_toc_entries_from_text returns one entry per match of the
\* section-header pattern and then one per match of the subsection pattern,
\* each group in text order and with nothing dropped, so that a number both
\* patterns match gives two entries; the page-text load stores a header at
\* level 0 with its number cut to a 2-digit fraction when it is longer and a
\* subsection at level 1 with its number as matched.
C25_PageTextEntries ==
    LET text == parse_toc_text_content(arg.pairs)
        H == SectionHeaderMatchesFrom(text, 1)
        S == TocSubsectionMatchesFrom(text, 1)
    IN  /\ (pc = "registry" /\ ret.op = "extract_toc_entries_from_text") =>
            /\ InTextOrder(H) /\ InTextOrder(S)
            /\ Len(ret.value) = Len(H) + Len(S)
            /\ \A i \in 1..Len(H) :
                /\ ret.value[i].type = "section_header"
                /\ ret.value[i].number = H[i].number
            /\ \A i \in 1..Len(S) :
                /\ ret.value[Len(H) + i].type = "subsection"
                /\ ret.value[Len(H) + i].number = S[i].number
        /\ (pc = "registry" /\ ret.op = "load_toc_from_file" /\ ret.value = "") =>
            /\ Len(toc_entries) = Len(H) + Len(S)
            /\ \A i \in 1..Len(H) :
                /\ toc_entries[i].level = 0
                /\ toc_entries[i].number = CutToTwoDigits(H[i].number)
                /\ FractionLength(toc_entries[i].number) <= 2
            /\ \A i \in 1..Len(S) :
                /\ toc_entries[Len(H) + i].level = 1
                /\ toc_entries[Len(H) + i].number = S[i].number
                /\ SubsectionShaped(S[i].number)

\* The pages 'SECTION 1.0400 STREETS' and '1.0410 Width' were loaded: 1.0400
\* is a header, stored as document 1.04, and a subsection as well, followed
\* by subsection 1.0410.
C25_Witness ==
    /\ pc = "registry"
    /\ ret.op = "load_toc_from_file"
    /\ arg = PagesPayload(<<TextHeader, TextSubsection>>)
    /\ Len(toc_entries) = 3
    /\ toc_entries[1].number = N104 /\ toc_entries[1].level = 0
    /\ toc_entries[2].number = <<"1", ".", "0", "4", "0", "0">> /\ toc_entries[2].level = 1
    /\ toc_entries[2].title = toc_entries[1].title
    /\ toc_entries[3].number = N10410 /\ toc_entries[3].level = 1

\* The documents whose file_info is the scanned file f.
DocumentsHolding(f) == {k \in HierarchyKeys : DocumentAt(k).file_info = f}

TocDocumentNumbers == {e.number : e \in {x \in Range(toc_entries) : is_document_level(x.number)}}

TocSubsectionsUnder(k) ==
    SelectSeq(toc_entries,
              LAMBDA e : is_subsection(e.number) /\ get_parent_document(e.number) = k)

FilesOfDocument(k) ==
    SelectSeq(document_files, LAMBDA f : extract_number_from_filename(f.filename) = k)

\* C27: right after build_hierarchy, whatever loads, scans and builds came
\* before it, the hierarchy is the one of the current toc_entries and
\* document_files alone: its keys are the document numbers of the current
\* TOC, each document holds the current subsections under it once each and
\* the last current file of its number or none; a build_hierarchy that
\* follows a build_hierarchy leaves the hierarchy as it is; and right after
\* scan_document_files document_files holds the files of the directory just
\* scanned and no others.
C27_BuildReplacesHierarchy ==
    /\ [](ret.op = "scan_document_files" =>
            [i \in 1..Len(document_files) |-> document_files[i].filename]
              = ret.content_dir.listing)
    /\ [](ret.op = "build_hierarchy" =>
            /\ HierarchyKeys = TocDocumentNumbers
            /\ Len(document_hierarchy) = Cardinality(TocDocumentNumbers)
            /\ \A k \in HierarchyKeys :
                /\ DocumentAt(k).subsections = TocSubsectionsUnder(k)
                /\ DocumentAt(k).file_info =
                     IF FilesOfDocument(k) = <<>> THEN NoFile
                     ELSE FilesOfDocument(k)[Len(FilesOfDocument(k))])
    /\ [][(ret.op = "build_hierarchy" /\ ret'.op = "build_hierarchy")
            => document_hierarchy' = document_hierarchy]_vars

\* The second build_hierarchy of the run, on the TOC of 1.04 and 1.05 and
\* the file dc-1.05.json: the hierarchy holds the two documents, without
\* subsections, and the file of 1.05.
C27_Witness ==
    /\ ret.op = "build_hierarchy"
    /\ arg = 2
    /\ toc_entries = TocEntriesOf(<<[number |-> N104, title |-> "Streets"],
                                    [number |-> N105, title |-> "Parks"]>>)
    /\ Len(document_files) = 1
    /\ document_files[1].filename = Name(N105)
    /\ HierarchyKeys = {N104, N105}
    /\ DocumentAt(N104).file_info = NoFile
    /\ DocumentAt(N104).subsections = <<>>
    /\ DocumentAt(N105).file_info = document_files[1]

\* Whether the entries are those of the first n items of the payload.
EntriesOfItems(entries, items, n) ==
    /\ Len(entries) = n
    /\ \A i \in 1..n :
        entries[i].number = items[i].number /\ entries[i].title = items[i].title

\* C28: a call of load_toc_from_file leaves toc_entries as it was when the
\* file cannot be read or parsed, empty when the structure is unsupported,
\* and holding the entries of the new payload and no others when it
\* succeeds; when an item of the payload is no object the call raises with
\* the entries of the items before it; in no case are entries of the earlier
\* payload left beside entries of the new one.
C28_NoMixedToc ==
    [][ret'.op = "load_toc_from_file" =>
        /\ ~arg.readable <=> ret'.value = "FileNotFoundError"
        /\ ret'.value = "FileNotFoundError" => toc_entries' = toc_entries
        /\ ret'.value = "ValueError" => toc_entries' = <<>>
        /\ (ret'.value = "" /\ arg.shape \in {"toc_dict", "list"}) =>
            EntriesOfItems(toc_entries', arg.items, Len(arg.items))
        /\ (ret'.value = "" /\ arg.shape = "dict") =>
            /\ Len(toc_entries')
                 = Len(extract_toc_entries_from_text(parse_toc_text_content(arg.pairs)))
            /\ \A i \in 1..Len(toc_entries') :
                Occurs(toc_entries'[i].number, parse_toc_text_content(arg.pairs))
        /\ ret'.value = "AttributeError" =>
            /\ Len(toc_entries') < Len(arg.items)
            /\ EntriesOfItems(toc_entries', arg.items, Len(toc_entries'))
            /\ NotADict(arg.items[Len(toc_entries') + 1])
        /\ ret'.value \in {"", "FileNotFoundError", "ValueError", "AttributeError"}]_vars

\* The payload with 1.0410, a scalar and 1.0410 again raised AttributeError
\* and left the one entry 1.0410, whatever the registry held before.
C28_Witness ==
    /\ Loaded
    /\ ret.value = "AttributeError"
    /\ Len(arg.items) = 3
    /\ Len(toc_entries) = 1
    /\ toc_entries[1].number = N10410


\* The runner has compared, or has failed to: the steps after
\* compare_with_baseline.
Compared == pc \in {"report", "raised", "archive", "returned", "exited"}

\* The average validation percentage is more than tenths/10 below 96.3.
ValidationDroppedMoreThan(avg, tenths) == 963 * avg.den - 10 * avg.num > tenths * avg.den

\* The status of the unrounded drops: FAIL beyond 1.0 or 5.0, WARN for any
\* drop, PASS otherwise.
StatusOfDrops(baseline_data, current_alignment, current_validation) ==
    LET drop == baseline_data.alignment_percentage - current_alignment.alignment_percentage
        avg == avg_validation_percentage(current_validation.results)
    IN  IF drop > 100 \/ ValidationDroppedMoreThan(avg, 50) THEN "FAIL"
        ELSE IF drop > 0 \/ ValidationDroppedMoreThan(avg, 0) THEN "WARN"
        ELSE "PASS"

\* C29: with the baseline loaded and both analyses completed without
\* exception, compare_with_baseline yields the status of the drops (FAIL
\* beyond 1.0 of alignment or 5.0 of validation, else WARN for any drop,
\* else PASS, never UNKNOWN), and the process exits 0 exactly when that
\* status is PASS or WARN.
C29_StatusAndExit ==
    (/\ Compared
     /\ load_baseline(arg.baseline)
     /\ ret.alignment_data # NoResult
     /\ ret.validation_data # NoResult)
    => /\ pc # "raised"
       /\ ret.comparison # NoResult
       /\ ret.comparison.status
            = StatusOfDrops(arg.baseline, ret.alignment_data, ret.validation_data)
       /\ pc \in {"archive", "returned", "exited"} => ret.status = ret.comparison.status
       /\ pc \in {"returned", "exited"} => (ret.success <=> ret.status \in {"PASS", "WARN"})
       /\ pc = "exited" => (ret.exit_code = 0 <=> ret.status \in {"PASS", "WARN"})


\* The names of the run directories among entries, the run's own excepted.
OtherRunDirectories(entries) ==
    {e.name : e \in {x \in entries : x.is_dir /\ x.name # arg.timestamp}}

\* The run's own directory is among the entries.
OwnDirectoryIn(entries) == [name |-> arg.timestamp, is_dir |-> TRUE] \in entries

\* The other run directories that are left are the keep_latest greatest
\* names of those that were there, all of them when there were fewer.
KeptAreLatest ==
    LET before == OtherRunDirectories(arg.test_runs)
        kept == OtherRunDirectories(ret.test_runs)
    IN  /\ kept \subseteq before
        /\ Cardinality(kept) = Min(KeepLatest, Cardinality(before))
        /\ \A k \in kept, d \in before \ kept : NameGreater(k, d)

\* C30: run directories are deleted only by the step after the report was
\* generated and never when the baseline fails to load, the suite then
\* returning failure before any analysis; archive_previous_runs, once the
\* report is there, leaves the run's own directory and, of the others, the keep_latest (5) greatest
\* names, deleting every older one and nothing else.
C30_ArchiveAfterReport ==
    /\ [](/\ ret.test_runs \subseteq arg.test_runs
          /\ OwnDirectoryIn(ret.test_runs)
          /\ {e \in arg.test_runs : ~e.is_dir} \subseteq ret.test_runs
          /\ ~load_baseline(arg.baseline) =>
                /\ ret.test_runs = arg.test_runs
                /\ ret.alignment_data = NoResult /\ ret.validation_data = NoResult
                /\ pc \in {"returned", "exited"} => ret.success = FALSE
          /\ (ret.status # "" /\ pc \in {"returned", "exited"}) => KeptAreLatest)
    /\ [][ret'.test_runs # ret.test_runs =>
            pc = "archive" /\ ret.status \in {"PASS", "WARN", "FAIL", "UNKNOWN"}]_vars

\* The run was made before the six others of archive/test_runs; the suite
\* has returned and the oldest of the others is deleted, the run's own
\* directory, older still, is there.
C30_Witness ==
    /\ pc = "exited"
    /\ arg.timestamp = <<"0", "0">>
    /\ Cardinality(OtherRunDirectories(arg.test_runs)) = 6
    /\ OtherRunDirectories(arg.test_runs) \ OtherRunDirectories(ret.test_runs) = {RunName(1)}
    /\ OwnDirectoryIn(ret.test_runs)

============================================================================
